---- MODULE Spec2Model ----
(***************************************************************************)
(* A model of go-fsak: the catalog store (data/sqlite.go), the sync        *)
(* pipeline (core: processDirectories / processFileInfoOnly) and the       *)
(* duplicate resolver (core/clean.go: handleDuplicateFiles).               *)
(*                                                                         *)
(* A path is a sequence of components; an absolute path starts with "/".   *)
(* A file's state on disk is a content number; digests, size and times     *)
(* are functions of it.                                                    *)
(***************************************************************************)
EXTENDS Integers, Sequences, FiniteSets, TLC

\* ------------------------------------------------------------------ bounds

\* Largest row ID the store specification hands out.
MaxStoreID == 3
\* Number of store operations the store specification performs.
MaxStoreOps == 4
\* Largest write-batch size of a sync run.
MaxBatch == 2
\* Largest worker count of a sync run.
MaxThreads == 2
\* Number of consecutive sync runs.
MaxRuns == 2
\* Number of injected move / row-delete failures in one resolver run.
MaxFaults == 1

\* ------------------------------------------------------------------- paths

\* The process's working directory (os.Getwd, used by filepath.Abs).
Cwd == <<"/", "w">>

IsAbs(p) == Len(p) > 0 /\ p[1] = "/"

\* filepath.Abs: an absolute path is kept, a relative one is joined to Cwd.
Abs(p) == IF IsAbs(p) THEN p ELSE Cwd \o p

\* filepath.Join(a, rel) for clean paths.
Join(a, rel) == a \o rel

\* filepath.Dir: "/" for the root, "." (the empty relative path) for a
\* one-component relative path.
Dir(p) == IF Len(p) <= 1 THEN (IF IsAbs(p) THEN <<"/">> ELSE <<>>)
          ELSE SubSeq(p, 1, Len(p) - 1)

\* filepath.Base
Base(p) == IF Len(p) = 0 THEN "." ELSE p[Len(p)]

\* Component-wise prefix.
IsPrefix(a, b) == Len(a) <= Len(b) /\ SubSeq(b, 1, Len(a)) = a

\* strings.HasPrefix(path, folder) on the "/"-joined strings.  No component
\* name of the trees below is a proper string prefix of another one, so the
\* string prefix is the component prefix.
HasPrefix(path, folder) == IsPrefix(folder, path)

RECURSIVE CommonLen(_, _)
CommonLen(a, b) ==
    IF Len(a) = 0 \/ Len(b) = 0 \/ a[1] # b[1] THEN 0
    ELSE 1 + CommonLen(Tail(a), Tail(b))

\* filepath.Rel(base, targ): an error when only one of them is absolute,
\* otherwise ".." for every component of base past the common prefix and
\* then the rest of targ.
Rel(base, targ) ==
    IF IsAbs(base) # IsAbs(targ) THEN [err |-> TRUE, path |-> <<>>]
    ELSE LET k == CommonLen(base, targ)
         IN  [err  |-> FALSE,
              path |-> [i \in 1..(Len(base) - k) |-> ".."]
                       \o SubSeq(targ, k + 1, Len(targ))]

\* Lexical order of the component names (filepath.Walk visits the entries of
\* a directory in lexical order).
NameOrder ==
    <<"FSAK", "a", "b", "del", "fsak.db", "p", "w", "x", "x.t", "xat", "y", "z">>
Rank(n) == CHOOSE i \in 1..Len(NameOrder) : NameOrder[i] = n

RECURSIVE PathLess(_, _)
PathLess(a, b) ==
    IF Len(b) = 0 THEN FALSE
    ELSE IF Len(a) = 0 THEN TRUE
    ELSE IF a[1] = b[1] THEN PathLess(Tail(a), Tail(b))
    ELSE IF a[1] = "/" THEN TRUE
    ELSE IF b[1] = "/" THEN FALSE
    ELSE Rank(a[1]) < Rank(b[1])

\* The elements of a finite set of paths in ascending order.
RECURSIVE SortPaths(_)
SortPaths(S) ==
    IF S = {} THEN <<>>
    ELSE LET m == CHOOSE x \in S : \A y \in S \ {x} : PathLess(x, y)
         IN  <<m>> \o SortPaths(S \ {m})

\* -------------------------------------------------------------- filesystem

Contents == 1..2

\* A directory entry whose lstat fails: filepath.Walk hands it to the callback
\* with a non-nil err, and os.Stat on it fails with an error that is not
\* "does not exist".
IsBroken(c) == c = -1

\* A regular file that cannot be opened for reading: lstat and os.Stat
\* succeed, os.Open fails.
IsUnreadable(c) == c = 0

\* A file that can be opened and whose read fails before its end (a damaged
\* sector; a link to a directory).
FailsOnRead(c) == c = -2

\* A file of which no fingerprint can be had.
CannotFingerprint(c) == IsUnreadable(c) \/ FailsOnRead(c)

\* util.CalculateBlake3String: the key of a path string.
CalculateBlake3String(p) == <<"blake3">> \o p

Blake3Of(c) == <<"b3", c>>
MD5Of(c) == <<"md5", c>>
SizeOf(c) == 10 * c
MTimeOf(c) == 100 + c

\* A mutant of FileBlake3MD5: the error of io.Copy is not looked at and the
\* sums of what was read are returned.
FileBlake3MD5KeepsPartialSums(f, p) ==
    IF Abs(p) \notin DOMAIN f \/ IsBroken(f[Abs(p)]) \/ IsUnreadable(f[Abs(p)])
    THEN [err |-> TRUE, blake3 |-> "", md5 |-> ""]
    ELSE [err |-> FALSE, blake3 |-> Blake3Of(f[Abs(p)]), md5 |-> MD5Of(f[Abs(p)])]

\* util.FileBlake3MD5 on a filesystem f: an error and two empty strings when
\* the file cannot be opened, the same when io.Copy returns an error,
\* otherwise the two sums of the content.
FileBlake3MD5(f, p) ==
    IF Abs(p) \notin DOMAIN f \/ IsBroken(f[Abs(p)]) \/ IsUnreadable(f[Abs(p)])
    THEN [err |-> TRUE, blake3 |-> "", md5 |-> ""]
    ELSE IF FailsOnRead(f[Abs(p)])
    THEN [err |-> TRUE, blake3 |-> "", md5 |-> ""]
    ELSE [err |-> FALSE, blake3 |-> Blake3Of(f[Abs(p)]), md5 |-> MD5Of(f[Abs(p)])]

\* ------------------------------------------------------------------- store

\* A mutant of FileInfo: the path field holds the absolute form of the path,
\* whatever path the key was derived from.
FileInfoAbsPath(key, path, c, tag) ==
    [ID |-> 0, Key |-> key, Name |-> Base(path), Path |-> Abs(path), Status |-> 0,
     MD5 |-> MD5Of(c), Blake3 |-> Blake3Of(c), Size |-> SizeOf(c), Tag |-> tag,
     MTime |-> MTimeOf(c), CTime |-> MTimeOf(c)]

\* data.FileInfo as built by a caller (ID 0: not yet stored).
FileInfo(key, path, c, tag) ==
    [ID |-> 0, Key |-> key, Name |-> Base(path), Path |-> path, Status |-> 0,
     MD5 |-> MD5Of(c), Blake3 |-> Blake3Of(c), Size |-> SizeOf(c), Tag |-> tag,
     MTime |-> MTimeOf(c), CTime |-> MTimeOf(c)]

\* A store: whether the handle is open, the rows of tb_file_infos, the
\* AUTOINCREMENT sequence (the largest ID ever handed out), and whether the
\* backend fails every statement (the database file has become unusable: the
\* disk is full, the file is locked or damaged).
NewDB == [open |-> TRUE, rows |-> {}, seq |-> 0, fail |-> FALSE]

\* A mutant of GetFileInfoByPath: no row is ever found.
GetFileInfoByPathFindsNone(d, path) ==
    IF ~d.open THEN [err |-> "closed", row |-> <<>>]
    ELSE [err |-> "notfound", row |-> <<>>]

\* DB.GetFileInfoByPath: the first row (lowest ID) with this path.
GetFileInfoByPath(d, path) ==
    LET hit == {r \in d.rows : r.Path = path}
    IN  IF ~d.open THEN [err |-> "closed", row |-> <<>>]
        ELSE IF d.fail THEN [err |-> "backend", row |-> <<>>]
        ELSE IF hit = {} THEN [err |-> "notfound", row |-> <<>>]
        ELSE [err |-> "", row |-> CHOOSE r \in hit : \A q \in hit : r.ID <= q.ID]

\* A mutant of UpsertFileInfo: always INSERT, never look the key up.
UpsertAlwaysCreate(d, e) ==
    IF ~d.open \/ d.fail THEN [db |-> d, err |-> TRUE]
    ELSE [db  |-> [d EXCEPT !.rows = @ \cup {[e EXCEPT !.ID = d.seq + 1]},
                            !.seq = @ + 1],
          err |-> FALSE]

\* A mutant of UpsertFileInfo: the entry is saved with no WHERE clause and
\* takes the place of every row of the table.
UpsertReplacesTable(d, e) ==
    IF ~d.open \/ d.fail THEN [db |-> d, err |-> TRUE]
    ELSE [db  |-> [d EXCEPT !.rows = {[e EXCEPT !.ID = d.seq + 1]}, !.seq = @ + 1],
          err |-> FALSE]

\* A mutant of UpsertFileInfo: the update of an existing row leaves its two
\* digests as they were.
UpsertKeepsOldSums(d, e) ==
    LET hit == {r \in d.rows : r.Key = e.Key}
    IN  IF ~d.open \/ d.fail THEN [db |-> d, err |-> TRUE]
        ELSE IF hit = {}
        THEN [db  |-> [d EXCEPT !.rows = @ \cup {[e EXCEPT !.ID = d.seq + 1]},
                                !.seq = @ + 1],
              err |-> FALSE]
        ELSE LET existing == CHOOSE r \in hit : TRUE
             IN  [db  |-> [d EXCEPT !.rows = (@ \ {existing})
                                              \cup {[e EXCEPT !.ID = existing.ID,
                                                              !.MD5 = existing.MD5,
                                                              !.Blake3 = existing.Blake3]}],
                  err |-> FALSE]

\* DB.UpsertFileInfo: look the key up; create when there is no such row,
\* otherwise keep the row's ID and save every field of the entry.
UpsertFileInfo(d, e) ==
    LET hit == {r \in d.rows : r.Key = e.Key}
    IN  IF ~d.open \/ d.fail THEN [db |-> d, err |-> TRUE]
        ELSE IF hit = {}
        THEN [db  |-> [d EXCEPT !.rows = @ \cup {[e EXCEPT !.ID = d.seq + 1]},
                                !.seq = @ + 1],
              err |-> FALSE]
        ELSE LET existing == CHOOSE r \in hit : TRUE
             IN  [db  |-> [d EXCEPT !.rows = (@ \ {existing})
                                              \cup {[e EXCEPT !.ID = existing.ID]}],
                  err |-> FALSE]

\* DB.DeleteFileInfo: delete every row with this key.
DeleteFileInfo(d, key) ==
    IF ~d.open \/ d.fail THEN [db |-> d, err |-> TRUE]
    ELSE [db |-> [d EXCEPT !.rows = {r \in @ : r.Key # key}], err |-> FALSE]

\* ------------------------------------------------------------------- state

VARIABLES
    fs,         \* the filesystem: absolute path -> content
    db,         \* the catalog store
    lastOp,     \* store specification: the last store call and the store before it
    \* --- sync run (processDirectories)
    cfg,        \* dirs, threads, force, tag, batchSize of the sync command
    run,        \* number of sync runs started
    pc,         \* position of processDirectories' own goroutine
    totalFiles, \* countFiles' result
    toWalk,     \* the paths the driving walk has still to yield
    fileCh,     \* buffered channel of paths
    fileChClosed,
    resultCh,   \* buffered channel of entries
    resultChClosed,
    wPc,        \* worker -> "recv" | "send" | "done"
    wItem,      \* worker -> the entry it is about to send
    cPc,        \* collector: "recv" | "flush" | "done"
    batch,      \* collector's buffer
    cIdx,       \* next entry of batch to upsert
    counter,    \* the progress counter
    handed,     \* history: paths of the entries put on resultCh, in order
    upserted,   \* history: paths of the entries upserted with success, in order
    failed,     \* history: number of upserts that returned an error
    writers,    \* history: the goroutines that wrote the catalog in this run
    rowsAtStart,\* history: the catalog when this run started
    blacklistPatterns, \* the compiled exclusion rules of this run
    lookupErrs, \* history: number of worker lookups that returned a backend error
    sent,       \* history: the paths put on fileCh, in order
    \* --- duplicate resolver (handleDuplicateFiles)
    dCfg,       \* folderPaths and deletedSaveDir of the "clean dup" command
    dPc,        \* "idle" | "scan" | "select" | "move" | "delete" | "done" | "error"
    toScan,     \* the rest of allFiles
    fileInfoMap,\* path -> FileInfo
    groupsLeft, \* the duplicate groups not yet presented
    chosenLeft, \* the selected files of the current group still to be handled
    totalFilesProcessed,
    faults,     \* number of failures injected so far
    gGroup,     \* history: the paths of the group presented last
    gChosen,    \* history: the paths selected in it
    gFs,        \* history: the filesystem when it was presented
    gRows,      \* history: the catalog when it was presented
    gDone,      \* history: every selected file of it has been handled
    chosenAll,  \* history: every path selected in this run
    moved,      \* history: the paths whose rename succeeded
    moveFailed, \* history: the paths whose rename failed
    rowDeleted, \* history: the paths whose row deletion succeeded
    warned,     \* history: the paths whose row deletion failed
    presented,  \* history: the groups shown to the selector so far
    sortedGroup,\* the paths of the group presented last, in the order of its options
    \* --- merge (performMerge)
    mCfg,       \* sourceDir and targetDir of the "merge dir" command
    mPc,        \* "idle" | "scanSrc" | "scanTgt" | "copy" | "record" | "done" | "error"
    mToScan,    \* the entries the current getFilesWithHashes walk has still to visit
    sourceFiles,\* path -> FileHashes of the source tree
    targetFiles,\* path -> FileHashes of the target tree
    filesToCopy,\* the source paths still to be copied
    mCur,       \* the source and destination path of the copy just made
    mErr,       \* the step that returned the error: "" | "scan" | "copy" | "record"
    mFs,        \* history: the filesystem when the merge started
    mRowsAtCopy,\* history: the catalog when the last copy was attempted
    mCopied,    \* history: the source paths whose copy succeeded
    mRecorded,  \* history: the source paths whose destination row was upserted
    mFailed,    \* history: the source paths whose copy failed
    \* --- cleaning pass (cleanFileInfoTable)
    kPc,        \* "idle" | "check" | "delete" | "done" | "error"
    allRecords, \* the records still to be checked
    recordsToDelete, \* the records marked for deletion and not yet deleted
    kFs,        \* history: the filesystem when the pass started
    kRows       \* history: the catalog when the pass started

syncVars == <<cfg, run, pc, totalFiles, toWalk, fileCh, fileChClosed, resultCh,
              resultChClosed, wPc, wItem, cPc, batch, cIdx, counter, handed,
              upserted, failed, writers, rowsAtStart, blacklistPatterns, lookupErrs, sent>>

dupVars == <<dCfg, dPc, toScan, fileInfoMap, groupsLeft, chosenLeft,
             totalFilesProcessed, faults, gGroup, gChosen, gFs, gRows, gDone,
             chosenAll, moved, moveFailed, rowDeleted, warned, presented,
             sortedGroup>>

mergeVars == <<mCfg, mPc, mToScan, sourceFiles, targetFiles, filesToCopy, mCur,
               mErr, mFs, mRowsAtCopy, mCopied, mRecorded, mFailed>>

cleanVars == <<kPc, allRecords, recordsToDelete, kFs, kRows>>

vars == <<fs, db, lastOp, syncVars, dupVars, mergeVars, cleanVars>>

\* ------------------------------------------------------ store specification

NoOp == [n |-> 0, op |-> "none", entry |-> <<>>, before |-> NewDB, err |-> FALSE]

StorePaths == {<<"/", "w", "x">>, <<"/", "w", "y">>}

\* The entries the store specification upserts: any key with any field values.
StoreEntries ==
    {[FileInfo(CalculateBlake3String(k), p, c, t) EXCEPT !.Status = s] :
        k \in StorePaths, p \in StorePaths, c \in Contents,
        t \in {"", "t1"}, s \in {0}}

\* No sync command has been given.
SyncIdle ==
    /\ cfg = [dirs |-> <<>>, threads |-> 0, force |-> FALSE, tag |-> "",
            blacklist |-> "", batchSize |-> 0]
    /\ run = 0
    /\ pc = "idle"
    /\ totalFiles = 0
    /\ toWalk = <<>>
    /\ fileCh = <<>>
    /\ fileChClosed = FALSE
    /\ resultCh = <<>>
    /\ resultChClosed = FALSE
    /\ wPc = <<>>
    /\ wItem = <<>>
    /\ cPc = "idle"
    /\ batch = <<>>
    /\ cIdx = 1
    /\ counter = 0
    /\ handed = <<>>
    /\ upserted = <<>>
    /\ failed = 0
    /\ writers = {}
    /\ rowsAtStart = {}
    /\ blacklistPatterns = <<>>
    /\ lookupErrs = 0
    /\ sent = <<>>

\* No "clean dup" command has been given.
DupIdle ==
    /\ dCfg = [folderPaths |-> <<>>, deletedSaveDir |-> <<>>]
    /\ dPc = "idle"
    /\ toScan = <<>>
    /\ fileInfoMap = <<>>
    /\ groupsLeft = {}
    /\ chosenLeft = <<>>
    /\ totalFilesProcessed = 0
    /\ faults = 0
    /\ gGroup = {}
    /\ gChosen = {}
    /\ gFs = <<>>
    /\ gRows = {}
    /\ gDone = FALSE
    /\ chosenAll = {}
    /\ moved = {}
    /\ moveFailed = {}
    /\ rowDeleted = {}
    /\ warned = {}
    /\ presented = {}
    /\ sortedGroup = <<>>

\* No "merge dir" command has been given.
MergeIdle ==
    /\ mCfg = [from |-> <<>>, to |-> <<>>]
    /\ mPc = "idle"
    /\ mToScan = <<>>
    /\ sourceFiles = <<>>
    /\ targetFiles = <<>>
    /\ filesToCopy = {}
    /\ mCur = [src |-> <<>>, dst |-> <<>>]
    /\ mErr = ""
    /\ mFs = <<>>
    /\ mRowsAtCopy = {}
    /\ mCopied = {}
    /\ mRecorded = {}
    /\ mFailed = {}

\* No "clean info" command has been given.
CleanIdle ==
    /\ kPc = "idle"
    /\ allRecords = <<>>
    /\ recordsToDelete = <<>>
    /\ kFs = <<>>
    /\ kRows = {}

InitStore ==
    /\ fs = <<>>
    /\ db = NewDB
    /\ lastOp = NoOp
    /\ SyncIdle
    /\ DupIdle
    /\ MergeIdle
    /\ CleanIdle

StoreUpsert(e) ==
    /\ lastOp.n < MaxStoreOps
    /\ db.seq < MaxStoreID
    /\ LET r == UpsertFileInfo(db, e)
       IN  /\ db' = r.db
           /\ lastOp' = [n |-> lastOp.n + 1, op |-> "upsert", entry |-> e,
                         before |-> db, err |-> r.err]
    /\ UNCHANGED <<mergeVars, cleanVars, dupVars, fs, syncVars>>

StoreDelete(k) ==
    /\ lastOp.n < MaxStoreOps
    /\ LET r == DeleteFileInfo(db, k)
       IN  /\ db' = r.db
           /\ lastOp' = [n |-> lastOp.n + 1, op |-> "delete", entry |-> k,
                         before |-> db, err |-> r.err]
    /\ UNCHANGED <<mergeVars, cleanVars, dupVars, fs, syncVars>>

NextStore ==
    \/ \E e \in StoreEntries : StoreUpsert(e)
    \/ \E p \in StorePaths : StoreDelete(CalculateBlake3String(p))

SpecStore == InitStore /\ [][NextStore]_vars

\* C7: upsert(entry) creates a row with the entry's values when no row has
\* entry.Key; otherwise the one row with that key takes every field of the
\* entry and keeps its ID, every other row is untouched and the number of rows
\* is unchanged.
C7_UpsertCreatesOrOverwrites ==
    (lastOp.op = "upsert" /\ ~lastOp.err) =>
        LET e == lastOp.entry
            old == lastOp.before.rows
            hit == {r \in old : r.Key = e.Key}
        IN  IF hit = {}
            THEN /\ \E id \in 1..(MaxStoreID + 1) :
                        /\ id \notin {r.ID : r \in old}
                        /\ db.rows = old \cup {[e EXCEPT !.ID = id]}
                 /\ Cardinality(db.rows) = Cardinality(old) + 1
            ELSE /\ Cardinality(hit) = 1
                 /\ \E r \in hit : db.rows = (old \ {r}) \cup {[e EXCEPT !.ID = r.ID]}
                 /\ Cardinality(db.rows) = Cardinality(old)

\* C7 witness: an upsert has overwritten a row whose fields differed from the
\* entry's, beside another row that it left alone.
C7_Witness ==
    /\ lastOp.op = "upsert" /\ ~lastOp.err
    /\ \E r \in lastOp.before.rows :
          /\ r.Key = lastOp.entry.Key
          /\ r.Path # lastOp.entry.Path
          /\ r.MD5 # lastOp.entry.MD5
          /\ r.Tag # lastOp.entry.Tag
    /\ Cardinality(db.rows) = 2

\* ---------------------------------------------------------- exclusion rules

\* A string is a sequence of one-character strings.  The characters of a
\* component name:
Chars(n) ==
    CASE n = "x.t"     -> <<"x", ".", "t">>
      [] n = "xat"     -> <<"x", "a", "t">>
      [] n = "del"     -> <<"d", "e", "l">>
      [] n = "FSAK"    -> <<"F", "S", "A", "K">>
      [] n = "fsak.db" -> <<"f", "s", "a", "k", ".", "d", "b">>
      [] OTHER         -> <<n>>

RECURSIVE StrRel(_)
StrRel(p) ==
    IF p = <<>> THEN <<>>
    ELSE IF Len(p) = 1 THEN Chars(p[1])
    ELSE Chars(p[1]) \o <<"/">> \o StrRel(Tail(p))

\* The string of a path, as filepath.Walk hands it to the callback.
Str(p) == IF IsAbs(p) THEN <<"/">> \o StrRel(Tail(p)) ELSE StrRel(p)

\* strings.TrimSpace
RECURSIVE TrimLeft(_)
TrimLeft(line) ==
    IF line # <<>> /\ Head(line) = " " THEN TrimLeft(Tail(line)) ELSE line

RECURSIVE TrimRight(_)
TrimRight(line) ==
    IF line # <<>> /\ line[Len(line)] = " "
    THEN TrimRight(SubSeq(line, 1, Len(line) - 1)) ELSE line

TrimSpace(line) == TrimRight(TrimLeft(line))

\* The characters regexp.QuoteMeta escapes.
Meta == {"\\", ".", "+", "*", "?", "(", ")", "|", "[", "]", "{", "}", "^", "$"}

\* A mutant of QuoteMeta: nothing is escaped.
RECURSIVE QuoteNothing(_)
QuoteNothing(line) ==
    IF line = <<>> THEN <<>> ELSE <<Head(line)>> \o QuoteNothing(Tail(line))

\* regexp.QuoteMeta: a backslash before every special character.
RECURSIVE QuoteMeta(_)
QuoteMeta(line) ==
    IF line = <<>> THEN <<>>
    ELSE (IF Head(line) \in Meta THEN <<"\\", Head(line)>> ELSE <<Head(line)>>)
         \o QuoteMeta(Tail(line))

\* The atoms of a pattern of the syntax used here: a character, an escaped
\* character, "." (any character), "^", "$", each but the last two possibly
\* followed by "*".  The parse stops with "bad" at a "*" with nothing to
\* repeat, at a backslash that ends the pattern and at a "(" (no pattern here
\* closes a group).
RECURSIVE Atoms(_)
Atoms(pattern) ==
    IF pattern = <<>> THEN <<>>
    ELSE LET c == Head(pattern)
             esc == c = "\\"
             w == IF esc THEN 2 ELSE 1
             star == Len(pattern) > w /\ pattern[w + 1] = "*"
             rest == SubSeq(pattern, w + (IF star THEN 2 ELSE 1), Len(pattern))
         IN  IF esc /\ Len(pattern) = 1 THEN <<[kind |-> "bad"]>>
             ELSE IF ~esc /\ c \in {"*", "("} THEN <<[kind |-> "bad"]>>
             ELSE IF ~esc /\ c = "^" THEN <<[kind |-> "bol"]>> \o Atoms(Tail(pattern))
             ELSE IF ~esc /\ c = "$" THEN <<[kind |-> "eol"]>> \o Atoms(Tail(pattern))
             ELSE <<[kind |-> IF ~esc /\ c = "." THEN "any" ELSE "char",
                     c    |-> IF esc THEN pattern[2] ELSE c,
                     star |-> star]>> \o Atoms(rest)

\* regexp.Compile: the compiled expression keeps its source text.
Compile(pattern) ==
    LET a == Atoms(pattern)
    IN  IF \E i \in DOMAIN a : a[i].kind = "bad"
        THEN [err |-> TRUE, src |-> <<>>, atoms |-> <<>>]
        ELSE [err |-> FALSE, src |-> pattern, atoms |-> a]

AtomMatches(a, c) == a.kind = "any" \/ (a.kind = "char" /\ a.c = c)

\* The atoms match the text from position i on.
RECURSIVE MatchAt(_, _, _)
MatchAt(atoms, text, i) ==
    IF atoms = <<>> THEN TRUE
    ELSE LET a == Head(atoms)
         IN  IF a.kind = "bol" THEN i = 1 /\ MatchAt(Tail(atoms), text, i)
             ELSE IF a.kind = "eol"
                  THEN i = Len(text) + 1 /\ MatchAt(Tail(atoms), text, i)
             ELSE IF a.star
                  THEN \E k \in 0..(Len(text) + 1 - i) :
                          /\ \A j \in i..(i + k - 1) : AtomMatches(a, text[j])
                          /\ MatchAt(Tail(atoms), text, i + k)
             ELSE /\ i <= Len(text)
                  /\ AtomMatches(a, text[i])
                  /\ MatchAt(Tail(atoms), text, i + 1)

\* Regexp.MatchString: the expression matches somewhere in the text.
MatchString(re, text) == \E i \in 1..(Len(text) + 1) : MatchAt(re.atoms, text, i)

\* The files a -B flag can name, each a list of lines: a regular expression
\* with an escaped dot, one with a plain dot, a literal path with a dot, a
\* blank line and a line of spaces, a literal path between spaces, a relative
\* literal path, a directory written with a trailing slash, an expression with
\* a star, the empty expression, and a malformed expression after a good line.
BlacklistFiles ==
    [re    |-> << <<"/", "\\", ".", "t", "$", "/">> >>,
     any   |-> << <<"/", ".", "t", "$", "/">> >>,
     lit   |-> << Str(<<"/", "w", "a", "p", "x.t">>), <<>>, <<" ", " ">> >>,
     sp    |-> << <<" ">> \o Str(<<"/", "w", "a", "p", "x">>) \o <<" ">> >>,
     rel   |-> << Str(<<"a", "p", "x">>) >>,
     dir   |-> << Str(<<"/", "w", "a">>) \o <<"/">> >>,
     star  |-> << <<"/", "^", "/", "w", "/", ".", "*", "x", "$", "/">> >>,
     all   |-> << <<"/", "/">> >>,
     bad   |-> << Str(<<"/", "w", "a", "p", "x">>), <<"/", "(", "/">> >>]

\* One turn of ReadBlacklist's loop for a trimmed, non-empty line.
CompileLine(line) ==
    IF Len(line) >= 2 /\ line[1] = "/" /\ line[Len(line)] = "/"
    THEN Compile(SubSeq(line, 2, Len(line) - 1))
    ELSE Compile(<<"^">> \o QuoteMeta(line) \o <<"$">>)

RECURSIVE CompileLines(_)
CompileLines(lines) ==
    IF lines = <<>> THEN [err |-> FALSE, patterns |-> <<>>]
    ELSE LET line == TrimSpace(Head(lines))
             rest == CompileLines(Tail(lines))
         IN  IF line = <<>> THEN rest
             ELSE IF CompileLine(line).err \/ rest.err
                  THEN [err |-> TRUE, patterns |-> <<>>]
             ELSE [err |-> FALSE, patterns |-> <<CompileLine(line)>> \o rest.patterns]

\* util.ReadBlacklist: no rules for an empty file name, an error for a file
\* that cannot be opened, otherwise one compiled expression per non-empty
\* line, or the error of the first expression that does not compile.
ReadBlacklist(blacklistFile) ==
    IF blacklistFile = "" THEN [err |-> FALSE, patterns |-> <<>>]
    ELSE IF blacklistFile \notin DOMAIN BlacklistFiles
         THEN [err |-> TRUE, patterns |-> <<>>]
    ELSE CompileLines(BlacklistFiles[blacklistFile])

\* The blacklist test of the two walk callbacks.
shouldSkip(patterns, path) ==
    \E i \in DOMAIN patterns : MatchString(patterns[i], Str(path))

\* ---------------------------------------------------------------- the tree

DirA == <<"/", "w", "a", "p">>
DirB == <<"/", "w", "b", "p">>

\* The tree on disk: two files with the same content in two directories of
\* the same name, and one more file.
Tree ==
    (DirA \o <<"x">>) :> 1 @@ (DirA \o <<"y">>) :> 2 @@ (DirB \o <<"x">>) :> 1

\* filepath.Walk(root, ...) restricted to the regular files it visits, in
\* lexical order; each is reported as root joined with its place under root.
WalkFiles(f, root) ==
    SortPaths({Join(root, SubSeq(q, Len(Abs(root)) + 1, Len(q))) :
                  q \in {q \in DOMAIN f : IsPrefix(Abs(root), q)}})

\* The walk of countFiles and of processDirectories: the callback returns the
\* err it is given, which ends the walk of that root at the first bad entry.
RECURSIVE UntilError(_, _)
UntilError(f, s) ==
    IF s = <<>> \/ IsBroken(f[Abs(Head(s))]) THEN <<>>
    ELSE <<Head(s)>> \o UntilError(f, Tail(s))

\* The paths the driving walk of processDirectories yields: every root is
\* walked, a file that matches a blacklist pattern is left out, an error of
\* one root's walk is printed and the next root follows.
RECURSIVE WalkAll(_, _, _)
WalkAll(f, ds, patterns) ==
    IF ds = <<>> THEN <<>>
    ELSE SelectSeq(UntilError(f, WalkFiles(f, Head(ds))),
                   LAMBDA path : ~shouldSkip(patterns, path))
         \o WalkAll(f, Tail(ds), patterns)

\* totalFiles of countFiles after the walks of these roots.
RECURSIVE CountWalks(_, _, _)
CountWalks(f, dirs, patterns) ==
    IF dirs = <<>> THEN 0
    ELSE Cardinality({i \in DOMAIN WalkFiles(f, Head(dirs)) :
                         ~shouldSkip(patterns, WalkFiles(f, Head(dirs))[i])})
         + CountWalks(f, Tail(dirs), patterns)

\* countFiles: the number of files of all roots that match no blacklist
\* pattern, or the error of the first walk that met a bad entry.
countFiles(f, dirs, patterns) ==
    [err |-> \E i \in 1..Len(dirs) :
                 UntilError(f, WalkFiles(f, dirs[i])) # WalkFiles(f, dirs[i]),
     n   |-> IF \E i \in 1..Len(dirs) :
                   UntilError(f, WalkFiles(f, dirs[i])) # WalkFiles(f, dirs[i])
             THEN 0 ELSE CountWalks(f, dirs, patterns)]

\* getAllFilesInFolder: the callback returns nil for an entry with an error,
\* so the walk goes on and the entry is left out.
getAllFilesInFolder(f, folderPath) ==
    SelectSeq(WalkFiles(f, folderPath), LAMBDA p : ~IsBroken(f[Abs(p)]))

\* allFiles of handleDuplicateFiles: the files of every folder, in order.
RECURSIVE AllFiles(_, _)
AllFiles(f, ds) ==
    IF ds = <<>> THEN <<>>
    ELSE getAllFilesInFolder(f, Head(ds)) \o AllFiles(f, Tail(ds))

\* ------------------------------------------------------------ the sync run

\* The root lists given to "sync info": one root, a relative root, two roots,
\* the same root twice.
SyncDirs ==
    {<<DirA>>, <<<<"a", "p">>>>, <<DirA, DirB>>, <<DirB, DirB>>}

Workers == 1..cfg.threads

\* A mutant of ChanCap: the channels hold one item more.
ChanCapOneMore == cfg.threads * 2 + 1

\* make(chan ..., threads*2)
ChanCap == cfg.threads * 2

\* A mutant of processFileInfoOnly: the error of FileBlake3MD5 is not looked
\* at and a record is built all the same.
processFileInfoOnlyAnyHash(filePath, tag, force, d, f) ==
    LET absPath == Abs(filePath)
        got == GetFileInfoByPath(d, absPath)
        h == FileBlake3MD5(f, filePath)
        nothing == [err |-> FALSE, why |-> "", skip |-> TRUE, info |-> <<>>]
    IN  IF absPath \notin DOMAIN f \/ IsBroken(f[absPath])
        THEN [nothing EXCEPT !.err = TRUE, !.why = "stat", !.skip = FALSE]
        ELSE IF ~force /\ got.err = "" THEN nothing
        ELSE IF ~force /\ got.err # "notfound"
             THEN [nothing EXCEPT !.err = TRUE, !.why = "lookup", !.skip = FALSE]
        ELSE [err |-> FALSE, why |-> "", skip |-> FALSE,
              info |-> [FileInfo(CalculateBlake3String(absPath), absPath,
                                 f[absPath], tag)
                        EXCEPT !.MD5 = h.md5, !.Blake3 = h.blake3]]

\* A mutant of processFileInfoOnly: the catalog is looked up under force too.
processFileInfoOnlyLooksUpAlways(filePath, tag, force, d, f) ==
    LET absPath == Abs(filePath)
        got == GetFileInfoByPath(d, absPath)
        h == FileBlake3MD5(f, filePath)
        nothing == [err |-> FALSE, why |-> "", skip |-> TRUE, info |-> <<>>]
    IN  IF absPath \notin DOMAIN f \/ IsBroken(f[absPath])
        THEN [nothing EXCEPT !.err = TRUE, !.why = "stat", !.skip = FALSE]
        ELSE IF got.err = "" THEN nothing
        ELSE IF got.err # "notfound"
             THEN [nothing EXCEPT !.err = TRUE, !.why = "lookup", !.skip = FALSE]
        ELSE IF h.err
             THEN [nothing EXCEPT !.err = TRUE, !.why = "hash", !.skip = FALSE]
        ELSE [err |-> FALSE, why |-> "", skip |-> FALSE,
              info |-> [FileInfo(CalculateBlake3String(absPath), absPath,
                                 f[absPath], tag)
                        EXCEPT !.MD5 = h.md5, !.Blake3 = h.blake3]]

\* processFileInfoOnly: stat, the lookup by absolute path unless force, the
\* key of the absolute path, the fingerprint, the record.  "why" names the
\* step whose error is returned.
processFileInfoOnly(filePath, tag, force, d, f) ==
    LET absPath == Abs(filePath)
        got == GetFileInfoByPath(d, absPath)
        h == FileBlake3MD5(f, filePath)
        nothing == [err |-> FALSE, why |-> "", skip |-> TRUE, info |-> <<>>]
    IN  IF absPath \notin DOMAIN f \/ IsBroken(f[absPath])
        THEN [nothing EXCEPT !.err = TRUE, !.why = "stat", !.skip = FALSE]
        ELSE IF ~force /\ got.err = "" THEN nothing
        ELSE IF ~force /\ got.err # "notfound"
             THEN [nothing EXCEPT !.err = TRUE, !.why = "lookup", !.skip = FALSE]
        ELSE IF h.err
             THEN [nothing EXCEPT !.err = TRUE, !.why = "hash", !.skip = FALSE]
        ELSE [err |-> FALSE, why |-> "", skip |-> FALSE,
              info |-> [FileInfo(CalculateBlake3String(absPath), absPath,
                                 f[absPath], tag)
                        EXCEPT !.MD5 = h.md5, !.Blake3 = h.blake3]]

\* A mutant of AfterLoad: the error of countFiles is not looked at.
AfterLoadIgnoresCountError(rulesErr, countErr, connectErr) ==
    IF rulesErr THEN "badrules"
    ELSE IF connectErr THEN "noconnect"
    ELSE "walk"

\* Where the command is after ReadBlacklist, countFiles and data.Connect: an
\* error of any of them is printed and the process exits with status 1.
AfterLoad(rulesErr, countErr, connectErr) ==
    IF rulesErr THEN "badrules"
    ELSE IF countErr THEN "aborted"
    ELSE IF connectErr THEN "noconnect"
    ELSE "walk"

\* The command starts: ReadBlacklist, countFiles and data.Connect; then the
\* channels, the workers and the collector are created and the driving walk
\* begins.  After an error nothing of this is created.
StartRun(c) ==
    LET bl == ReadBlacklist(c.blacklist)
        cnt == countFiles(fs, c.dirs, bl.patterns)
        next == AfterLoad(bl.err, cnt.err, db.fail)
        started == next = "walk"
    IN  /\ cfg' = c
        /\ run' = run + 1
        /\ pc' = next
        /\ blacklistPatterns' = bl.patterns
        /\ totalFiles' = IF bl.err THEN 0 ELSE cnt.n
        /\ db' = IF started THEN [db EXCEPT !.open = TRUE] ELSE db
        /\ toWalk' = IF started THEN WalkAll(fs, c.dirs, bl.patterns) ELSE <<>>
        /\ fileCh' = <<>>
        /\ fileChClosed' = FALSE
        /\ resultCh' = <<>>
        /\ resultChClosed' = FALSE
        /\ wPc' = [w \in 1..c.threads |-> IF started THEN "recv" ELSE "idle"]
        /\ wItem' = [w \in 1..c.threads |-> <<>>]
        /\ cPc' = IF started THEN "recv" ELSE "idle"
        /\ batch' = <<>>
        /\ cIdx' = 1
        /\ counter' = 0
        /\ handed' = <<>>
        /\ upserted' = <<>>
        /\ failed' = 0
        /\ writers' = {}
        /\ rowsAtStart' = db.rows
        /\ lookupErrs' = 0
        /\ sent' = <<>>
        /\ UNCHANGED <<mergeVars, cleanVars, dupVars, fs, lastOp>>

\* The first run of the command line.
SyncStart ==
    /\ pc = "idle"
    /\ dPc = "idle" /\ mPc = "idle" /\ kPc = "idle"
    /\ StartRun(cfg)

\* The same command is run again over the unchanged tree.
SyncAgain ==
    /\ pc = "exited"
    /\ dPc = "idle" /\ mPc = "idle" /\ kPc = "idle"
    /\ run < MaxRuns
    /\ StartRun(cfg)

\* The walk callback: fileCh <- path (blocks while the channel is full).
WalkSend ==
    /\ pc = "walk"
    /\ toWalk # <<>>
    /\ Len(fileCh) < ChanCap
    /\ fileCh' = Append(fileCh, Head(toWalk))
    /\ toWalk' = Tail(toWalk)
    /\ sent' = Append(sent, Head(toWalk))
    /\ UNCHANGED <<mergeVars, cleanVars, dupVars, fs, db, lastOp, cfg, run, pc, totalFiles, fileChClosed, resultCh,
                   resultChClosed, wPc, wItem, cPc, batch, cIdx, counter, handed,
                   upserted, failed, writers, rowsAtStart, blacklistPatterns, lookupErrs>>

\* close(fileCh)
CloseFileCh ==
    /\ pc = "walk"
    /\ toWalk = <<>>
    /\ fileChClosed' = TRUE
    /\ pc' = "wait"
    /\ UNCHANGED <<mergeVars, cleanVars, dupVars, fs, db, lastOp, cfg, run, totalFiles, toWalk, fileCh, resultCh,
                   resultChClosed, wPc, wItem, cPc, batch, cIdx, counter, handed,
                   upserted, failed, writers, rowsAtStart, blacklistPatterns, lookupErrs, sent>>

\* wg.Wait() returns once every worker has called wg.Done; close(resultCh).
WaitAndCloseResultCh ==
    /\ pc = "wait"
    /\ \A w \in Workers : wPc[w] = "done"
    /\ resultChClosed' = TRUE
    /\ pc' = "return"
    /\ UNCHANGED <<mergeVars, cleanVars, dupVars, fs, db, lastOp, cfg, run, totalFiles, toWalk, fileCh, fileChClosed,
                   resultCh, wPc, wItem, cPc, batch, cIdx, counter, handed,
                   upserted, failed, writers, rowsAtStart, blacklistPatterns, lookupErrs, sent>>

\* "Sync operation completed." is printed, processDirectories returns and its
\* deferred function closes the database.
ReturnAndCloseDB ==
    /\ pc = "return"
    /\ db' = [db EXCEPT !.open = FALSE]
    /\ pc' = "returned"
    /\ UNCHANGED <<mergeVars, cleanVars, dupVars, fs, lastOp, cfg, run, totalFiles, toWalk, fileCh, fileChClosed,
                   resultCh, resultChClosed, wPc, wItem, cPc, batch, cIdx, counter,
                   handed, upserted, failed, writers, rowsAtStart, blacklistPatterns, lookupErrs, sent>>

\* main returns: the process ends, and with it every goroutine still running.
ProcessExit ==
    /\ pc = "returned"
    /\ pc' = "exited"
    /\ UNCHANGED <<mergeVars, cleanVars, dupVars, fs, db, lastOp, cfg, run, totalFiles, toWalk, fileCh, fileChClosed,
                   resultCh, resultChClosed, wPc, wItem, cPc, batch, cIdx, counter,
                   handed, upserted, failed, writers, rowsAtStart, blacklistPatterns, lookupErrs, sent>>

\* A mutant of WorkerHandOff: the worker upserts its entry itself.
WorkerUpsertsItself(w, e) ==
    /\ db' = UpsertFileInfo(db, e).db
    /\ writers' = writers \cup {"worker"}
    /\ UNCHANGED <<resultCh, handed>>

\* resultCh <- fileInfo (blocks while the channel is full).
WorkerHandOff(w, e) ==
    /\ Len(resultCh) < ChanCap
    /\ resultCh' = Append(resultCh, e)
    /\ handed' = Append(handed, e.Path)
    /\ UNCHANGED <<db, writers>>

\* A worker takes the next path and processes it; an error is printed, a nil
\* result is dropped, an entry is kept for the send.
WorkerRecv(w) ==
    /\ pc \in {"walk", "wait"}
    /\ wPc[w] = "recv"
    /\ fileCh # <<>>
    /\ fileCh' = Tail(fileCh)
    /\ LET r == processFileInfoOnly(Head(fileCh), cfg.tag, cfg.force, db, fs)
       IN  /\ IF r.err \/ r.skip
              THEN UNCHANGED <<wPc, wItem>>
              ELSE /\ wPc' = [wPc EXCEPT ![w] = "send"]
                   /\ wItem' = [wItem EXCEPT ![w] = r.info]
           /\ lookupErrs' = IF r.why = "lookup" THEN lookupErrs + 1 ELSE lookupErrs
    /\ UNCHANGED <<mergeVars, cleanVars, dupVars, fs, db, lastOp, cfg, run, pc, totalFiles, toWalk, fileChClosed,
                   resultCh, resultChClosed, cPc, batch, cIdx, counter, handed,
                   upserted, failed, writers, rowsAtStart, blacklistPatterns, sent>>

WorkerSend(w) ==
    /\ pc \in {"walk", "wait"}
    /\ wPc[w] = "send"
    /\ WorkerHandOff(w, wItem[w])
    /\ wPc' = [wPc EXCEPT ![w] = "recv"]
    /\ wItem' = [wItem EXCEPT ![w] = <<>>]
    /\ UNCHANGED <<mergeVars, cleanVars, dupVars, fs, lastOp, cfg, run, pc, totalFiles, toWalk, fileCh, fileChClosed,
                   resultChClosed, cPc, batch, cIdx, counter, upserted, failed,
                   rowsAtStart, blacklistPatterns, lookupErrs, sent>>

\* range fileCh ends: the channel is closed and empty; wg.Done().
WorkerDone(w) ==
    /\ pc \in {"walk", "wait"}
    /\ wPc[w] = "recv"
    /\ fileCh = <<>>
    /\ fileChClosed
    /\ wPc' = [wPc EXCEPT ![w] = "done"]
    /\ UNCHANGED <<mergeVars, cleanVars, dupVars, fs, db, lastOp, cfg, run, pc, totalFiles, toWalk, fileCh,
                   fileChClosed, resultCh, resultChClosed, wItem, cPc, batch, cIdx,
                   counter, handed, upserted, failed, writers, rowsAtStart, blacklistPatterns, lookupErrs, sent>>

\* A mutant of Alive: the collector goroutine ends with the driving walk.
AliveUntilWalkEnds == pc = "walk"

\* The collector goroutine runs as long as the process does.
Alive == pc \in {"walk", "wait", "return", "returned"}

\* A mutant of BatchFull: the batch is saved once it is over the size.
BatchOverFull(b, batchSize) == Len(b) > batchSize

\* len(batch) >= batchSize
BatchFull(b, batchSize) == Len(b) >= batchSize

\* The collector takes an entry into its batch; a full batch is to be saved.
CollectorRecv ==
    /\ Alive
    /\ cPc = "recv"
    /\ resultCh # <<>>
    /\ resultCh' = Tail(resultCh)
    /\ batch' = Append(batch, Head(resultCh))
    /\ IF BatchFull(Append(batch, Head(resultCh)), cfg.batchSize)
       THEN cPc' = "flush" /\ cIdx' = 1
       ELSE UNCHANGED <<cPc, cIdx>>
    /\ UNCHANGED <<mergeVars, cleanVars, dupVars, fs, db, lastOp, cfg, run, pc, totalFiles, toWalk, fileCh,
                   fileChClosed, resultChClosed, wPc, wItem, counter, handed,
                   upserted, failed, writers, rowsAtStart, blacklistPatterns, lookupErrs, sent>>

\* range resultCh ends: the remaining items of the batch are to be saved.
CollectorDrained ==
    /\ Alive
    /\ cPc = "recv"
    /\ resultCh = <<>>
    /\ resultChClosed
    /\ IF Len(batch) > 0
       THEN cPc' = "flush" /\ cIdx' = 1
       ELSE cPc' = "done" /\ UNCHANGED cIdx
    /\ UNCHANGED <<mergeVars, cleanVars, dupVars, fs, db, lastOp, cfg, run, pc, totalFiles, toWalk, fileCh,
                   fileChClosed, resultCh, resultChClosed, wPc, wItem, batch, counter,
                   handed, upserted, failed, writers, rowsAtStart, blacklistPatterns, lookupErrs, sent>>

\* Inside dbMutex: db.UpsertFileInfo(info) for the next entry of the batch; an
\* error is printed and the loop goes on.
CollectorUpsert ==
    /\ Alive
    /\ cPc = "flush"
    /\ cIdx <= Len(batch)
    /\ LET r == UpsertFileInfo(db, batch[cIdx])
       IN  /\ db' = r.db
           /\ IF r.err
              THEN failed' = failed + 1 /\ UNCHANGED <<upserted, writers>>
              ELSE /\ upserted' = Append(upserted, batch[cIdx].Path)
                   /\ writers' = writers \cup {"collector"}
                   /\ UNCHANGED failed
    /\ cIdx' = cIdx + 1
    /\ UNCHANGED <<mergeVars, cleanVars, dupVars, fs, lastOp, cfg, run, pc, totalFiles, toWalk, fileCh, fileChClosed,
                   resultCh, resultChClosed, wPc, wItem, cPc, batch, counter, handed,
                   rowsAtStart, blacklistPatterns, lookupErrs, sent>>

\* The counter is advanced for every entry of the batch and the batch is
\* reset; after the final batch the goroutine ends.
CollectorCount ==
    /\ Alive
    /\ cPc = "flush"
    /\ cIdx > Len(batch)
    /\ counter' = counter + Len(batch)
    /\ batch' = <<>>
    /\ cIdx' = 1
    /\ cPc' = IF Len(batch) < cfg.batchSize THEN "done" ELSE "recv"
    /\ UNCHANGED <<mergeVars, cleanVars, dupVars, fs, db, lastOp, cfg, run, pc, totalFiles, toWalk, fileCh,
                   fileChClosed, resultCh, resultChClosed, wPc, wItem, handed,
                   upserted, failed, writers, rowsAtStart, blacklistPatterns, lookupErrs, sent>>

InitSync ==
    /\ fs = Tree
    /\ db = [NewDB EXCEPT !.open = FALSE]
    /\ lastOp = NoOp
    /\ cfg \in [dirs : SyncDirs, threads : 1..MaxThreads, force : BOOLEAN,
                tag : {"t1"}, blacklist : {""}, batchSize : 1..MaxBatch]
    /\ run = 0
    /\ pc = "idle"
    /\ totalFiles = 0
    /\ toWalk = <<>>
    /\ fileCh = <<>>
    /\ fileChClosed = FALSE
    /\ resultCh = <<>>
    /\ resultChClosed = FALSE
    /\ wPc = [w \in 1..cfg.threads |-> "idle"]
    /\ wItem = [w \in 1..cfg.threads |-> <<>>]
    /\ cPc = "idle"
    /\ batch = <<>>
    /\ cIdx = 1
    /\ counter = 0
    /\ handed = <<>>
    /\ upserted = <<>>
    /\ failed = 0
    /\ writers = {}
    /\ rowsAtStart = {}
    /\ blacklistPatterns = <<>>
    /\ lookupErrs = 0
    /\ sent = <<>>
    /\ DupIdle
    /\ MergeIdle
    /\ CleanIdle

NextSync ==
    \/ SyncStart
    \/ SyncAgain
    \/ WalkSend
    \/ CloseFileCh
    \/ WaitAndCloseResultCh
    \/ ReturnAndCloseDB
    \/ ProcessExit
    \/ \E w \in Workers : WorkerRecv(w)
    \/ \E w \in Workers : WorkerSend(w)
    \/ \E w \in Workers : WorkerDone(w)
    \/ CollectorRecv
    \/ CollectorDrained
    \/ CollectorUpsert
    \/ CollectorCount

SpecSync == InitSync /\ [][NextSync]_vars

\* ------------------------------------------------------ claims on the sync run

\* processDirectories has returned (and its process may have ended).
Returned == pc \in {"returned", "exited"}

\* Entries handed to the collector and not yet passed to UpsertFileInfo.
PendingUpserts ==
    Len(resultCh) + (IF cPc = "flush" THEN Len(batch) - cIdx + 1 ELSE Len(batch))

Count(seq, x) == Cardinality({i \in DOMAIN seq : seq[i] = x})

\* The absolute paths the driving walk yields in this run that are not
\* skipped: all of them under force, otherwise those with no row at the start.
ToBeUpserted ==
    {Abs(p) : p \in {q \in {WalkAll(fs, cfg.dirs, blacklistPatterns)[i] : i \in 1..Len(WalkAll(fs, cfg.dirs, blacklistPatterns))} :
                        cfg.force \/ ~\E r \in rowsAtStart : r.Path = Abs(q)}}

\* C1: when processDirectories has returned, every entry a worker handed to
\* the collector has been upserted (the final partial batch is flushed).
C1_AllHandedUpsertedAtReturn ==
    Returned => upserted = handed

\* C2: at the end of a run every yielded, non-skipped path has been upserted
\* exactly once.
C2_UpsertedExactlyOnce ==
    Returned => \A p \in ToBeUpserted : Count(upserted, p) = 1

\* C3: in a sync run only the collector writes the catalog: no worker and no
\* walker step has upserted or deleted a row, and the rows only change while
\* the collector holds dbMutex.
C3_CollectorIsOnlyWriter ==
    /\ writers \subseteq {"collector"}
    /\ (run > 0 /\ cPc # "flush" /\ writers = {}) => db.rows = rowsAtStart

\* C3 witness: two workers are at work, one of them about to hand an entry
\* over, while the collector has already written two rows.
C3_Witness ==
    /\ cfg.threads = 2
    /\ \E w \in Workers : wPc[w] = "send"
    /\ Len(upserted) >= 2
    /\ writers = {"collector"}

\* C4: once the deferred close of the database has run, no collector upsert
\* is pending and none has been attempted on the closed handle.
C4_NoUpsertAfterClose ==
    (run > 0 /\ ~db.open) => (failed = 0 /\ (pc = "returned" => PendingUpserts = 0))

\* C5: a second run over the unchanged tree with force=false upserts nothing
\* and leaves the catalog as the first run left it.
C5_SecondRunIsNoOp ==
    (run = 2 /\ ~cfg.force) => (upserted = <<>> /\ db.rows = rowsAtStart)

\* ------------------------------------------------- the duplicate resolver

DelDir == <<"/", "w", "del">>

\* The root lists given to "clean dup": two roots whose last component is the
\* same name, their common ancestor, a root in relative and in absolute form,
\* a relative root beside an absolute one.
DupDirs ==
    {<<DirA, DirB>>, <<<<"/", "w">>>>, <<<<"a", "p">>, DirA>>, <<<<"a", "p">>, DirB>>}

\* getRelativePathFromParent: the path relative to the parent of the first
\* folder that is a prefix of the file's path.
RECURSIVE getRelativePathFromParent(_, _)
getRelativePathFromParent(filePath, folderPaths) ==
    IF folderPaths = <<>> THEN [err |-> TRUE, path |-> <<>>]
    ELSE LET folderPath == Head(folderPaths)
             r == Rel(Dir(folderPath), filePath)
         IN  IF HasPrefix(filePath, folderPath) /\ ~r.err THEN r
             ELSE getRelativePathFromParent(filePath, Tail(folderPaths))

\* destPath of a selected file: deletedDir joined with the relative path, or
\* with the file name when there is none.
DestPath(info, c) ==
    LET rel == getRelativePathFromParent(info.Path, c.folderPaths)
    IN  Join(c.deletedSaveDir, IF rel.err THEN <<Base(info.Path)>> ELSE rel.path)

\* os.Rename(src, dst) on a filesystem f: dst is replaced when it exists.
Rename(f, src, dst) ==
    [q \in (DOMAIN f \ {Abs(src)}) \cup {Abs(dst)} |->
        IF q = Abs(dst) THEN f[Abs(src)] ELSE f[q]]

\* The groups of more than one file with the same MD5 and Blake3.
DuplicateGroups(fim) ==
    {g \in {{q \in DOMAIN fim : fim[q].MD5 = fim[p].MD5 /\ fim[q].Blake3 = fim[p].Blake3} :
               p \in DOMAIN fim} : Cardinality(g) > 1}

\* The sync run's state is gone with its process.
SyncReset ==
    /\ cfg' = [dirs |-> <<>>, threads |-> 0, force |-> FALSE, tag |-> "",
            blacklist |-> "", batchSize |-> 0]
    /\ run' = 0
    /\ pc' = "idle"
    /\ totalFiles' = 0
    /\ toWalk' = <<>>
    /\ fileCh' = <<>>
    /\ fileChClosed' = FALSE
    /\ resultCh' = <<>>
    /\ resultChClosed' = FALSE
    /\ wPc' = <<>>
    /\ wItem' = <<>>
    /\ cPc' = "idle"
    /\ batch' = <<>>
    /\ cIdx' = 1
    /\ counter' = 0
    /\ handed' = <<>>
    /\ upserted' = <<>>
    /\ failed' = 0
    /\ writers' = {}
    /\ rowsAtStart' = {}
    /\ blacklistPatterns' = <<>>
    /\ lookupErrs' = 0
    /\ sent' = <<>>

\* "clean dup" starts: data.Connect and the list of all files of the folders.
DupStart(c) ==
    /\ pc \in {"idle", "exited", "aborted"}
    /\ dPc = "idle" /\ mPc = "idle" /\ kPc = "idle"
    /\ dCfg' = c
    /\ db' = [db EXCEPT !.open = TRUE]
    /\ toScan' = AllFiles(fs, c.folderPaths)
    /\ dPc' = "scan"
    /\ SyncReset
    /\ UNCHANGED <<fs, lastOp, mergeVars, cleanVars, fileInfoMap, groupsLeft, chosenLeft,
                   totalFilesProcessed, faults, gGroup, gChosen, gFs, gRows, gDone,
                   chosenAll, moved, moveFailed, rowDeleted, warned,
                   presented, sortedGroup>>

\* One turn of the scan loop: the row found by the walked path is used; with
\* no row the file is fingerprinted and upserted under the key of that path.
DupScan ==
    /\ dPc = "scan"
    /\ toScan # <<>>
    /\ LET filePath == Head(toScan)
           got == GetFileInfoByPath(db, filePath)
           h == FileBlake3MD5(fs, filePath)
           fileInfo == FileInfo(CalculateBlake3String(filePath), filePath,
                                fs[Abs(filePath)], "")
       IN  IF got.err = ""
           THEN /\ fileInfoMap' = (filePath :> got.row) @@ fileInfoMap
                /\ UNCHANGED db
           ELSE IF h.err
           THEN UNCHANGED <<db, fileInfoMap>>
           ELSE /\ db' = UpsertFileInfo(db, fileInfo).db
                /\ fileInfoMap' = (filePath :> fileInfo) @@ fileInfoMap
    /\ toScan' = Tail(toScan)
    /\ UNCHANGED <<fs, lastOp, syncVars, mergeVars, cleanVars, dCfg, dPc, groupsLeft, chosenLeft,
                   totalFilesProcessed, faults, gGroup, gChosen, gFs, gRows, gDone,
                   chosenAll, moved, moveFailed, rowDeleted, warned,
                   presented, sortedGroup>>

\* A mutant of DupGroup: the files are grouped while the scan loop has files
\* left.
DupGroupBeforeScanEnds ==
    /\ dPc = "scan"
    /\ groupsLeft' = DuplicateGroups(fileInfoMap)
    /\ IF DuplicateGroups(fileInfoMap) = {}
       THEN dPc' = "done" /\ db' = [db EXCEPT !.open = FALSE]
       ELSE dPc' = "select" /\ UNCHANGED db
    /\ UNCHANGED <<fs, lastOp, syncVars, mergeVars, cleanVars, dCfg, toScan, fileInfoMap, chosenLeft,
                   totalFilesProcessed, faults, gGroup, gChosen, gFs, gRows, gDone,
                   chosenAll, moved, moveFailed, rowDeleted, warned,
                   presented, sortedGroup>>

\* The scan is over: the files are grouped; with no duplicate group the
\* command ends.
DupGroup ==
    /\ dPc = "scan"
    /\ toScan = <<>>
    /\ groupsLeft' = DuplicateGroups(fileInfoMap)
    /\ IF DuplicateGroups(fileInfoMap) = {}
       THEN dPc' = "done" /\ db' = [db EXCEPT !.open = FALSE]
       ELSE dPc' = "select" /\ UNCHANGED db
    /\ UNCHANGED <<fs, lastOp, syncVars, mergeVars, cleanVars, dCfg, toScan, fileInfoMap, chosenLeft,
                   totalFilesProcessed, faults, gGroup, gChosen, gFs, gRows, gDone,
                   chosenAll, moved, moveFailed, rowDeleted, warned,
                   presented, sortedGroup>>

\* The next group (in the map's order, which is any order) is shown sorted by
\* path and the selector answers with any subset of it.
DupSelect ==
    /\ dPc = "select"
    /\ \E g \in groupsLeft : \E chosen \in SUBSET g :
          /\ groupsLeft' = groupsLeft \ {g}
          /\ chosenLeft' = SortPaths(chosen)
          /\ dPc' = IF chosen = {} THEN "select" ELSE "move"
          /\ gGroup' = g
          /\ gChosen' = chosen
          /\ gFs' = fs
          /\ gRows' = db.rows
          /\ gDone' = (chosen = {})
          /\ chosenAll' = chosenAll \cup chosen
          /\ presented' = presented \cup {g}
          /\ sortedGroup' = SortPaths(g)
    /\ UNCHANGED <<fs, db, lastOp, syncVars, mergeVars, cleanVars, dCfg, toScan, fileInfoMap,
                   totalFilesProcessed, faults, moved, moveFailed, rowDeleted, warned>>

\* A mutant of AfterMove: the error of os.Rename is not looked at.
AfterMoveIgnoresError(renameErr) == "delete"

\* After os.Rename: an error ends the command, otherwise the row is deleted.
AfterMove(renameErr) == IF renameErr THEN "error" ELSE "delete"

\* The next selected file is moved to its destination.  The rename fails when
\* the source is not there, and may fail for a reason of the filesystem's.
DupMove ==
    /\ dPc = "move"
    /\ chosenLeft # <<>>
    /\ \E fault \in BOOLEAN :
          /\ fault => faults < MaxFaults
          /\ LET info == fileInfoMap[Head(chosenLeft)]
                 destPath == DestPath(info, dCfg)
                 renameErr == fault \/ Abs(info.Path) \notin DOMAIN fs
             IN  /\ dPc' = AfterMove(renameErr)
                 /\ IF renameErr
                    THEN /\ moveFailed' = moveFailed \cup {info.Path}
                         /\ UNCHANGED <<fs, moved>>
                    ELSE /\ fs' = Rename(fs, info.Path, destPath)
                         /\ moved' = moved \cup {info.Path}
                         /\ UNCHANGED moveFailed
                 /\ db' = IF AfterMove(renameErr) = "error"
                          THEN [db EXCEPT !.open = FALSE] ELSE db
          /\ faults' = IF fault THEN faults + 1 ELSE faults
    /\ UNCHANGED <<lastOp, syncVars, mergeVars, cleanVars, dCfg, toScan, fileInfoMap, groupsLeft,
                   chosenLeft, totalFilesProcessed, gGroup, gChosen, gFs, gRows,
                   gDone, chosenAll, rowDeleted, warned,
                   presented, sortedGroup>>

\* A mutant of AfterDelete: after the first row deletion the next group is
\* presented.
AfterDeleteLeavesGroup(deleteErr, rest) == "select"

\* After DeleteFileInfo: an error is a warning; the loop goes on with the next
\* selected file or, after the last one, with the next group.
AfterDelete(deleteErr, rest) == IF rest = <<>> THEN "select" ELSE "move"

\* The row with the key of the moved file's path is deleted.
DupDelete ==
    /\ dPc = "delete"
    /\ \E fault \in BOOLEAN :
          /\ fault => faults < MaxFaults
          /\ LET info == fileInfoMap[Head(chosenLeft)]
                 r == DeleteFileInfo(db, CalculateBlake3String(info.Path))
                 deleteErr == fault \/ r.err
             IN  /\ IF deleteErr
                    THEN /\ warned' = warned \cup {info.Path}
                         /\ UNCHANGED <<db, rowDeleted, totalFilesProcessed>>
                    ELSE /\ db' = r.db
                         /\ rowDeleted' = rowDeleted \cup {info.Path}
                         /\ totalFilesProcessed' = totalFilesProcessed + 1
                         /\ UNCHANGED warned
                 /\ dPc' = AfterDelete(deleteErr, Tail(chosenLeft))
          /\ faults' = IF fault THEN faults + 1 ELSE faults
    /\ chosenLeft' = Tail(chosenLeft)
    /\ gDone' = (Tail(chosenLeft) = <<>>)
    /\ UNCHANGED <<fs, lastOp, syncVars, mergeVars, cleanVars, dCfg, toScan, fileInfoMap, groupsLeft,
                   gGroup, gChosen, gFs, gRows, chosenAll, moved, moveFailed,
                   presented, sortedGroup>>

\* Every group has been presented: the summary is printed and the deferred
\* function closes the database.
DupEnd ==
    /\ dPc = "select"
    /\ groupsLeft = {}
    /\ dPc' = "done"
    /\ db' = [db EXCEPT !.open = FALSE]
    /\ UNCHANGED <<fs, lastOp, syncVars, mergeVars, cleanVars, dCfg, toScan, fileInfoMap, groupsLeft,
                   chosenLeft, totalFilesProcessed, faults, gGroup, gChosen, gFs,
                   gRows, gDone, chosenAll, moved, moveFailed, rowDeleted, warned,
                   presented, sortedGroup>>

NextDup ==
    \/ \E c \in [folderPaths : DupDirs, deletedSaveDir : {DelDir}] : DupStart(c)
    \/ DupScan
    \/ DupGroup
    \/ DupSelect
    \/ DupMove
    \/ DupDelete
    \/ DupEnd

\* Sync runs followed by a run of the duplicate resolver.
Init == InitSync

Next == NextSync \/ NextDup

Spec == Init /\ [][Next]_vars

\* ------------------------------------------ claims on the duplicate resolver

\* C6: the catalog holds at most one row per file: two rows never have paths
\* that name the same file.
C6_OneRowPerFile ==
    \A r1 \in db.rows : \A r2 \in db.rows :
        Abs(r1.Path) = Abs(r2.Path) => r1 = r2

\* The files of a filesystem that lie in the deletion area.
DeletionArea(f) == {q \in DOMAIN f : IsPrefix(Abs(dCfg.deletedSaveDir), q)}

\* The members of the group presented last are different files.
GroupOfDistinctFiles == \A p \in gGroup : \A q \in gGroup : Abs(p) = Abs(q) => p = q

\* C8: when a group of N different files of which K were selected has been
\* handled (and no move or row deletion failed), the deletion area holds K
\* more files, the K selected paths are gone from disk, the K selected rows
\* are gone from the catalog, and the other members and their rows are as
\* they were.
C8_ExactlyKMoved ==
    (gDone /\ faults = 0 /\ dPc \in {"select", "done"} /\ GroupOfDistinctFiles) =>
        LET K == Cardinality(gChosen)
        IN  /\ Cardinality(DeletionArea(fs)) = Cardinality(DeletionArea(gFs)) + K
            /\ \A p \in gChosen : Abs(p) \notin DOMAIN fs
            /\ Cardinality(gRows) - Cardinality(db.rows) = K
            /\ \A p \in gChosen : ~\E r \in db.rows : r.Path = p
            /\ \A p \in gGroup \ gChosen :
                  /\ Abs(p) \in DOMAIN fs
                  /\ fs[Abs(p)] = gFs[Abs(p)]
                  /\ {r \in db.rows : r.Path = p} = {r \in gRows : r.Path = p}

\* C9: a failed move of one selected file does not end the resolver: when the
\* command has ended, every group has been presented and every selected file
\* whose own move did not fail has been moved.
C9_MoveFailureIsPerFile ==
    dPc \in {"done", "error"} =>
        /\ groupsLeft = {}
        /\ \A p \in gChosen \ moveFailed : p \in moved

\* C10: a row deletion is attempted for a selected file only after that file's
\* move succeeded; a failed row deletion leaves the file moved, never ends the
\* command, and the resolver goes on to the remaining selected files.
C10_RowDeletedOnlyAfterMove ==
    /\ \A p \in rowDeleted \cup warned : p \in moved
    /\ \A p \in warned :
          /\ Abs(p) \notin DOMAIN fs
          /\ Abs(DestPath(fileInfoMap[p], dCfg)) \in DOMAIN fs
    /\ dPc = "error" => moveFailed # {}
    /\ dPc = "done" => \A p \in chosenAll : p \in moved

\* C10 witness: the row deletion of one selected file failed, and the next
\* selected file of the same group was then moved and its row deleted.
C10_Witness ==
    /\ dPc = "done"
    /\ \E p \in warned : \E q \in rowDeleted :
          /\ {p, q} \subseteq gChosen
          /\ PathLess(p, q)
          /\ \E r \in db.rows : r.Path = p

\* The longest common prefix of two paths.
CommonPrefix(a, b) == SubSeq(a, 1, CommonLen(a, b))

\* The common ancestor of the scanned roots, as an absolute path.
RECURSIVE CommonAncestor(_)
CommonAncestor(roots) ==
    IF Len(roots) = 1 THEN Abs(roots[1])
    ELSE CommonPrefix(Abs(Head(roots)), CommonAncestor(Tail(roots)))

\* C11: a removed duplicate lies in the deletion directory at its path
\* relative to the common ancestor of all scanned roots, and the rows removed
\* from the catalog for a group are rows whose key is the key of a selected
\* file's original path.
C11_DestinationUnderCommonAncestor ==
    /\ \A p \in moved :
          LET dest == Join(Abs(dCfg.deletedSaveDir),
                           Rel(CommonAncestor(dCfg.folderPaths), Abs(p)).path)
          IN  dest \in DOMAIN fs /\ fs[dest] = gFs[Abs(p)]
    /\ dPc \in {"move", "delete", "select", "done", "error"} =>
          \A r \in gRows \ db.rows :
              \E p \in gChosen : r.Key = CalculateBlake3String(p)

\* The digests the scan obtained for two scanned paths are equal.
SameDigests(p, q) ==
    /\ fileInfoMap[p].MD5 = fileInfoMap[q].MD5
    /\ fileInfoMap[p].Blake3 = fileInfoMap[q].Blake3

\* C12: once the scan is grouped, the groups shown or to be shown to the
\* selector are exactly the classes of scanned paths with equal digests that
\* have more than one member, and every member of such a group has the
\* digests of another scanned file.
C12_GroupsAreDigestClasses ==
    dPc \in {"select", "move", "delete", "done", "error"} =>
        LET scanned == DOMAIN fileInfoMap
            groups == presented \cup groupsLeft
        IN  /\ \A g \in groups :
                  /\ Cardinality(g) > 1
                  /\ g \subseteq scanned
                  /\ \A p \in g : \A q \in scanned : SameDigests(p, q) <=> q \in g
            /\ \A p \in scanned : \A q \in scanned :
                  (p # q /\ SameDigests(p, q)) => \E g \in groups : {p, q} \subseteq g
            /\ \A g \in groups : \A p \in g :
                  \E q \in scanned : Abs(q) # Abs(p) /\ SameDigests(p, q)

\* ------------------------------------------------------------------- merge

\* The "--from" and "--to" directories given to "merge dir": absolute,
\* relative to the working directory, and in the other direction.
MergeArgs ==
    {[from |-> DirA, to |-> DirB], [from |-> <<"a", "p">>, to |-> <<"b", "p">>],
     [from |-> DirB, to |-> DirA]}

\* backupDir: targetDir joined with "FSAK_" and the date of the day.
BackupDir(targetDir) == Join(targetDir, <<"FSAK">>)

\* strings.HasSuffix(path, "fsak.db"): of the names of the trees only the
\* name "fsak.db" itself ends so.
HasSuffixFsakDb(path) == Base(path) = "fsak.db"

\* The files the walks of getFilesWithHashes take in: an entry with an error
\* is skipped, and so is every path that ends with "fsak.db".
MergeWalk(f, dir) ==
    SelectSeq(WalkFiles(f, dir),
              LAMBDA p : ~IsBroken(f[Abs(p)]) /\ ~HasSuffixFsakDb(p))

\* FileHashes
FileHashes(md5, blake3) == [MD5 |-> md5, Blake3 |-> blake3]

\* filesToCopy: the source paths whose two digests are those of no target file.
NovelFiles(src, tgt) ==
    {p \in DOMAIN src :
        ~\E q \in DOMAIN tgt : src[p].MD5 = tgt[q].MD5 /\ src[p].Blake3 = tgt[q].Blake3}

\* What io.Copy leaves in the destination when it fails half way.
Truncated(c) == c + 2

\* copyFile(src, dst) on a filesystem f.  It fails when the source cannot be
\* opened; otherwise the destination is created (an existing file is
\* truncated) and the copy either fails half way or is complete and synced.
copyFile(f, src, dst, fault) ==
    IF Abs(src) \notin DOMAIN f \/ IsBroken(f[Abs(src)]) \/ IsUnreadable(f[Abs(src)])
    THEN [err |-> TRUE, fs |-> f]
    ELSE IF fault
    THEN [err |-> TRUE, fs |-> (Abs(dst) :> Truncated(f[Abs(src)])) @@ f]
    ELSE [err |-> FALSE, fs |-> (Abs(dst) :> f[Abs(src)]) @@ f]

\* "merge dir" starts: both directories are made absolute (dirCmd.Run), then
\* performMerge: data.Connect, the backup directory, and the first walk of
\* getFilesWithHashes over the source directory.
MergeStart(c) ==
    /\ pc \in {"idle", "exited", "aborted"}
    /\ dPc = "idle" /\ mPc = "idle" /\ kPc = "idle"
    /\ mCfg' = [from |-> Abs(c.from), to |-> Abs(c.to)]
    /\ db' = [db EXCEPT !.open = TRUE]
    /\ mToScan' = MergeWalk(fs, Abs(c.from))
    /\ mPc' = "scanSrc"
    /\ mFs' = fs
    /\ SyncReset
    /\ UNCHANGED <<fs, lastOp, dupVars, cleanVars, sourceFiles, targetFiles,
                   filesToCopy, mCur, mErr, mRowsAtCopy, mCopied, mRecorded, mFailed>>

\* One call of the walk callback of getFilesWithHashes: the digests of the row
\* with the absolute path are used; with no such row the file is fingerprinted
\* (an error ends the walk and the command) and upserted.
MergeScan ==
    /\ mPc \in {"scanSrc", "scanTgt"}
    /\ mToScan # <<>>
    /\ LET path == Head(mToScan)
           absPath == Abs(path)
           got == GetFileInfoByPath(db, absPath)
           h == FileBlake3MD5(fs, path)
           dbRecord == FileInfo(CalculateBlake3String(absPath), absPath, fs[absPath], "")
           up == UpsertFileInfo(db, dbRecord)
           hashes == IF got.err = "" /\ Len(got.row.MD5) > 0 /\ Len(got.row.Blake3) > 0
                     THEN FileHashes(got.row.MD5, got.row.Blake3)
                     ELSE FileHashes(h.md5, h.blake3)
           fromDb == got.err = "" /\ Len(got.row.MD5) > 0 /\ Len(got.row.Blake3) > 0
           failedScan == ~fromDb /\ (h.err \/ up.err)
       IN  /\ IF failedScan
              THEN /\ mPc' = "error"
                   /\ mErr' = "scan"
                   /\ db' = [db EXCEPT !.open = FALSE]
                   /\ UNCHANGED <<sourceFiles, targetFiles>>
              ELSE /\ db' = IF fromDb THEN db ELSE up.db
                   /\ IF mPc = "scanSrc"
                      THEN /\ sourceFiles' = (path :> hashes) @@ sourceFiles
                           /\ UNCHANGED targetFiles
                      ELSE /\ targetFiles' = (path :> hashes) @@ targetFiles
                           /\ UNCHANGED sourceFiles
                   /\ UNCHANGED <<mPc, mErr>>
    /\ mToScan' = Tail(mToScan)
    /\ UNCHANGED <<fs, lastOp, syncVars, dupVars, cleanVars, mCfg, filesToCopy, mCur,
                   mFs, mRowsAtCopy, mCopied, mRecorded, mFailed>>

\* A walk of getFilesWithHashes is over: after the source the target is
\* walked, after the target the files to copy are picked.
MergeScanDone ==
    /\ mPc \in {"scanSrc", "scanTgt"}
    /\ mToScan = <<>>
    /\ IF mPc = "scanSrc"
       THEN /\ mPc' = "scanTgt"
            /\ mToScan' = MergeWalk(fs, mCfg.to)
            /\ UNCHANGED filesToCopy
       ELSE /\ mPc' = "copy"
            /\ filesToCopy' = NovelFiles(sourceFiles, targetFiles)
            /\ UNCHANGED mToScan
    /\ UNCHANGED <<fs, db, lastOp, syncVars, dupVars, cleanVars, mCfg, sourceFiles,
                   targetFiles, mCur, mErr, mFs, mRowsAtCopy, mCopied, mRecorded,
                   mFailed>>

\* A mutant of AfterCopy: the error of copyFile is not looked at.
AfterCopyIgnoresError(copyErr) == "record"

\* After copyFile: an error ends the command, otherwise the destination is
\* fingerprinted and recorded.
AfterCopy(copyErr) == IF copyErr THEN "error" ELSE "record"

\* The next file to copy (in any order) is copied to the backup directory at
\* its path relative to the source directory.
MergeCopy ==
    /\ mPc = "copy"
    /\ \E srcPath \in filesToCopy : \E fault \in BOOLEAN :
          /\ fault => faults < MaxFaults
          /\ LET relPath == Rel(mCfg.from, srcPath)
                 dstPath == Join(BackupDir(mCfg.to), relPath.path)
                 cp == copyFile(fs, srcPath, dstPath, fault)
                 copyErr == relPath.err \/ cp.err
             IN  /\ fs' = IF relPath.err THEN fs ELSE cp.fs
                 /\ mCur' = [src |-> srcPath, dst |-> dstPath]
                 /\ mPc' = AfterCopy(copyErr)
                 /\ mErr' = IF AfterCopy(copyErr) = "error" THEN "copy" ELSE mErr
                 /\ db' = IF AfterCopy(copyErr) = "error"
                          THEN [db EXCEPT !.open = FALSE] ELSE db
                 /\ IF copyErr
                    THEN /\ mFailed' = mFailed \cup {srcPath}
                         /\ UNCHANGED mCopied
                    ELSE /\ mCopied' = mCopied \cup {srcPath}
                         /\ UNCHANGED mFailed
          /\ filesToCopy' = filesToCopy \ {srcPath}
          /\ faults' = IF fault THEN faults + 1 ELSE faults
    /\ mRowsAtCopy' = db.rows
    /\ UNCHANGED <<lastOp, syncVars, cleanVars, mCfg, mToScan, sourceFiles,
                   targetFiles, mFs, mRecorded,
                   dCfg, dPc, toScan, fileInfoMap, groupsLeft, chosenLeft,
                   totalFilesProcessed, gGroup, gChosen, gFs, gRows, gDone,
                   chosenAll, moved, moveFailed, rowDeleted, warned, presented,
                   sortedGroup>>

\* After the copy: os.Stat of the source, the key of the destination's
\* absolute path, the fingerprint of the destination, and the upsert.
MergeRecord ==
    /\ mPc = "record"
    /\ LET absDstPath == Abs(mCur.dst)
           h == FileBlake3MD5(fs, mCur.dst)
           statErr == Abs(mCur.src) \notin DOMAIN fs \/ IsBroken(fs[Abs(mCur.src)])
           dbRecord == [FileInfo(CalculateBlake3String(absDstPath), absDstPath,
                                 fs[Abs(mCur.src)], "")
                           EXCEPT !.MD5 = h.md5, !.Blake3 = h.blake3]
           up == UpsertFileInfo(db, dbRecord)
       IN  IF statErr \/ h.err \/ up.err
           THEN /\ mPc' = "error"
                /\ mErr' = "record"
                /\ db' = [db EXCEPT !.open = FALSE]
                /\ UNCHANGED mRecorded
           ELSE /\ mPc' = "copy"
                /\ db' = up.db
                /\ mRecorded' = mRecorded \cup {mCur.src}
                /\ UNCHANGED mErr
    /\ UNCHANGED <<fs, lastOp, syncVars, dupVars, cleanVars, mCfg, mToScan,
                   sourceFiles, targetFiles, filesToCopy, mCur, mFs, mRowsAtCopy,
                   mCopied, mFailed>>

\* Every file to copy has been handled: performMerge returns nil and its
\* deferred function closes the database.
MergeEnd ==
    /\ mPc = "copy"
    /\ filesToCopy = {}
    /\ mPc' = "done"
    /\ db' = [db EXCEPT !.open = FALSE]
    /\ UNCHANGED <<fs, lastOp, syncVars, dupVars, cleanVars, mCfg, mToScan,
                   sourceFiles, targetFiles, filesToCopy, mCur, mErr, mFs,
                   mRowsAtCopy, mCopied, mRecorded, mFailed>>

NextMerge ==
    \/ \E c \in MergeArgs : MergeStart(c)
    \/ MergeScan
    \/ MergeScanDone
    \/ MergeCopy
    \/ MergeRecord
    \/ MergeEnd

\* The catalog after the files at the given paths of f have been recorded
\* under those paths: absolute ones as a sync run records them, relative ones
\* as the duplicate scan records them.
RECURSIVE Cataloged(_, _, _)
Cataloged(d, f, paths) ==
    IF paths = <<>> THEN d
    ELSE Cataloged(UpsertFileInfo(d, FileInfo(CalculateBlake3String(Head(paths)),
                                              Head(paths), f[Abs(Head(paths))],
                                              "t0")).db,
                   f, Tail(paths))

\* The source /w/a/p with two files and an empty target.
TreeNovel == (DirA \o <<"x">>) :> 1 @@ (DirA \o <<"y">>) :> 2

\* The target's backup directory of the day already holds a file y whose
\* content is that of the source's x.
TreeBackup ==
    (DirA \o <<"x">>) :> 1 @@ (DirA \o <<"y">>) :> 2 @@ (DirB \o <<"FSAK", "y">>) :> 1

\* The source holds a file named fsak.db that is not the catalog's own file.
TreeDbName ==
    (DirA \o <<"fsak.db">>) :> 2 @@ (DirA \o <<"x">>) :> 1 @@ (DirB \o <<"x">>) :> 1

\* The source's file y cannot be opened for reading.
TreeUnreadable ==
    (DirA \o <<"x">>) :> 1 @@ (DirA \o <<"y">>) :> 0 @@ (DirB \o <<"x">>) :> 1

MergeTrees == {Tree, TreeNovel, TreeBackup, TreeDbName, TreeUnreadable}

\* A merge on one of the trees, with an empty catalog or with the catalog of
\* a sync run over the whole tree.
InitMerge ==
    /\ fs \in MergeTrees
    /\ db \in {[NewDB EXCEPT !.open = FALSE],
               [Cataloged(NewDB, fs, SortPaths(DOMAIN fs)) EXCEPT !.open = FALSE]}
    /\ lastOp = NoOp
    /\ SyncIdle
    /\ DupIdle
    /\ MergeIdle
    /\ CleanIdle

SpecMerge == InitMerge /\ [][NextMerge]_vars

\* ------------------------------------------------------ claims on the merge

\* util.GetDBPath: the catalog's own storage file, in the workspace directory.
GetDBPath == <<"/", "w", "ws", "db", "fsak.db">>

\* The files of a filesystem that lie under a root, by absolute path.
UnderRoot(f, root) == {q \in DOMAIN f : IsPrefix(Abs(root), q)}

\* Two contents have the same legacy digest and the same strong digest.
SameContent(a, b) == MD5Of(a) = MD5Of(b) /\ Blake3Of(a) = Blake3Of(b)

\* <target>/FSAK_<date>/<path relative to the source root> of a source file.
BackupPathOf(q) ==
    Join(Abs(BackupDir(mCfg.to)), SubSeq(q, Len(Abs(mCfg.from)) + 1, Len(q)))

\* The source files that were copied, by absolute path.
CopiedFiles == {Abs(p) : p \in mCopied}

\* C13: after a merge that returned without error, a source file was copied
\* exactly when no file under the target had its two digests, and the content
\* of every source file is found under the target.  (Files whose name ends
\* with "fsak.db" are the matter of C16 and are left aside here.)
C13_MergeCopiesExactlyNovel ==
    mPc = "done" =>
        \A q \in UnderRoot(mFs, mCfg.from) :
            ~HasSuffixFsakDb(q) =>
                /\ q \in CopiedFiles <=>
                      ~\E t \in UnderRoot(mFs, mCfg.to) : SameContent(mFs[t], mFs[q])
                /\ \E t \in UnderRoot(fs, mCfg.to) : SameContent(fs[t], mFs[q])

\* C14: every novel source file is copied to its backup path; once a copy is
\* recorded the catalog holds a row for the destination's absolute path with
\* the digests of the copied content; and a row is upserted only for a file
\* whose copy has been completed.
C14_NovelCopiedAndRecorded ==
    /\ \A q \in CopiedFiles :
          BackupPathOf(q) \in DOMAIN fs /\ fs[BackupPathOf(q)] = mFs[q]
    /\ \A p \in mRecorded :
          /\ p \in mCopied
          /\ \E r \in db.rows :
                /\ r.Path = BackupPathOf(Abs(p))
                /\ r.Key = CalculateBlake3String(BackupPathOf(Abs(p)))
                /\ r.MD5 = MD5Of(mFs[Abs(p)])
                /\ r.Blake3 = Blake3Of(mFs[Abs(p)])
    /\ \A p \in mCopied \ mRecorded : mPc \in {"record", "error"} /\ mCur.src = p
    /\ mPc = "done" =>
          \A q \in UnderRoot(mFs, mCfg.from) :
              (~\E t \in UnderRoot(mFs, mCfg.to) : SameContent(mFs[t], mFs[q]))
                  => \E p \in mRecorded : Abs(p) = q

\* C15: a failed copy ends the merge at once with an error: nothing is copied
\* or recorded after it, and the catalog is as it was when the copy was tried.
C15_CopyFailureAbortsMerge ==
    mFailed # {} =>
        /\ mPc = "error"
        /\ mErr = "copy"
        /\ mFailed \cap mRecorded = {}
        /\ db.rows = mRowsAtCopy
        /\ \A p \in filesToCopy :
              BackupPathOf(Abs(p)) \in DOMAIN fs
                  => (BackupPathOf(Abs(p)) \in DOMAIN mFs
                      /\ fs[BackupPathOf(Abs(p))] = mFs[BackupPathOf(Abs(p))])

\* C15 witness: the copy of one file failed half way, after another file had
\* been copied and recorded or while another file was still to be copied.
C15_Witness ==
    /\ mPc = "error"
    /\ \E p \in mFailed :
          /\ BackupPathOf(Abs(p)) \in DOMAIN fs
          /\ fs[BackupPathOf(Abs(p))] = Truncated(mFs[Abs(p)])
    /\ filesToCopy # {}

\* C16: when the two trees have been scanned, every regular file under the
\* source and under the target other than the catalog's own storage file has
\* been fingerprinted and takes part in the comparison.
C16_OnlyCatalogFileLeftOut ==
    mPc \in {"copy", "record", "done"} =>
        /\ \A q \in UnderRoot(mFs, mCfg.from) :
              q # GetDBPath => \E p \in DOMAIN sourceFiles : Abs(p) = q
        /\ \A q \in UnderRoot(mFs, mCfg.to) :
              q # GetDBPath => \E p \in DOMAIN targetFiles : Abs(p) = q

\* -------------------------------------------------------- the cleaning pass

\* The records of GetAllFileInfos, in the order of their IDs.
RECURSIVE SortByID(_)
SortByID(rows) ==
    IF rows = {} THEN <<>>
    ELSE LET r == CHOOSE x \in rows : \A y \in rows : x.ID <= y.ID
         IN  <<r>> \o SortByID(rows \ {r})

\* A mutant of StatNotExist: every error of os.Stat counts as a missing file.
StatAnyError(f, path) == Abs(path) \notin DOMAIN f \/ IsBroken(f[Abs(path)])

\* os.IsNotExist(err) for the err of os.Stat(path): the path names nothing.
StatNotExist(f, path) == Abs(path) \notin DOMAIN f

\* "clean info" starts: data.Connect and GetAllFileInfos.
CleanStart ==
    /\ pc \in {"idle", "exited", "aborted"}
    /\ dPc = "idle" /\ mPc = "idle" /\ kPc = "idle"
    /\ db' = [db EXCEPT !.open = TRUE]
    /\ allRecords' = SortByID(db.rows)
    /\ recordsToDelete' = <<>>
    /\ kPc' = "check"
    /\ kFs' = fs
    /\ kRows' = db.rows
    /\ SyncReset
    /\ UNCHANGED <<fs, lastOp, dupVars, mergeVars>>

\* One turn of the checking loop: a record whose path does not exist is
\* marked for deletion.
CleanCheck ==
    /\ kPc = "check"
    /\ allRecords # <<>>
    /\ recordsToDelete' = IF StatNotExist(fs, Head(allRecords).Path)
                          THEN Append(recordsToDelete, Head(allRecords))
                          ELSE recordsToDelete
    /\ allRecords' = Tail(allRecords)
    /\ UNCHANGED <<fs, db, lastOp, syncVars, dupVars, mergeVars, kPc, kFs, kRows>>

\* Every record has been checked: the summary is printed.
CleanChecked ==
    /\ kPc = "check"
    /\ allRecords = <<>>
    /\ kPc' = "delete"
    /\ UNCHANGED <<fs, db, lastOp, syncVars, dupVars, mergeVars, allRecords,
                   recordsToDelete, kFs, kRows>>

\* One turn of the deleting loop: DeleteFileInfo by the record's key; an
\* error ends the command.
CleanDelete ==
    /\ kPc = "delete"
    /\ recordsToDelete # <<>>
    /\ \E fault \in BOOLEAN :
          /\ fault => faults < MaxFaults
          /\ LET r == DeleteFileInfo(db, Head(recordsToDelete).Key)
             IN  IF fault \/ r.err
                 THEN /\ kPc' = "error"
                      /\ db' = [db EXCEPT !.open = FALSE]
                 ELSE /\ db' = r.db
                      /\ UNCHANGED kPc
          /\ faults' = IF fault THEN faults + 1 ELSE faults
    /\ recordsToDelete' = Tail(recordsToDelete)
    /\ UNCHANGED <<fs, lastOp, syncVars, mergeVars, allRecords, kFs, kRows,
                   dCfg, dPc, toScan, fileInfoMap, groupsLeft, chosenLeft,
                   totalFilesProcessed, gGroup, gChosen, gFs, gRows, gDone,
                   chosenAll, moved, moveFailed, rowDeleted, warned, presented,
                   sortedGroup>>

\* Every marked record has been deleted: the command ends and its deferred
\* function closes the database.
CleanEnd ==
    /\ kPc = "delete"
    /\ recordsToDelete = <<>>
    /\ kPc' = "done"
    /\ db' = [db EXCEPT !.open = FALSE]
    /\ UNCHANGED <<fs, lastOp, syncVars, dupVars, mergeVars, allRecords,
                   recordsToDelete, kFs, kRows>>

NextClean ==
    \/ CleanStart
    \/ CleanCheck
    \/ CleanChecked
    \/ CleanDelete
    \/ CleanEnd

\* The tree as it was when the catalog was written: the tree of today and
\* a file z that has been removed since.
TreeOld == (DirA \o <<"z">>) :> 2 @@ Tree

\* The directory entry of y is broken: its lstat fails.
TreeBroken ==
    (DirA \o <<"x">>) :> 1 @@ (DirA \o <<"y">>) :> -1 @@ (DirB \o <<"x">>) :> 1

\* The paths the catalog may hold a row for: files that are there, the file
\* that is gone, and the relative paths a duplicate scan recorded.
CleanPaths ==
    {DirA \o <<"x">>, DirA \o <<"y">>, DirA \o <<"z">>, <<"a", "p", "x">>,
     <<"a", "p", "z">>}

InitClean ==
    /\ fs \in {Tree, TreeBroken}
    /\ db \in {[Cataloged(NewDB, TreeOld, SortPaths(S)) EXCEPT !.open = FALSE] :
                  S \in SUBSET CleanPaths}
    /\ lastOp = NoOp
    /\ SyncIdle
    /\ DupIdle
    /\ MergeIdle
    /\ CleanIdle

SpecClean == InitClean /\ [][NextClean]_vars

\* C17: a cleaning pass never changes the filesystem; while it runs it
\* removes only rows whose path names nothing on disk and changes no other
\* row; and when it has ended the catalog holds exactly the rows it held at
\* the start whose path exists.
C17_CleanRemovesExactlyMissing ==
    kPc # "idle" =>
        /\ fs = kFs
        /\ db.rows \subseteq kRows
        /\ \A r \in kRows \ db.rows : Abs(r.Path) \notin DOMAIN fs
        /\ kPc = "done" => db.rows = {r \in kRows : Abs(r.Path) \in DOMAIN fs}

\* C17 witness: a pass has ended that removed the rows of a missing file, by
\* its absolute and by a relative path, and kept the row of a file that is
\* there and the row of a path whose stat fails for another reason.
C17_Witness ==
    /\ kPc = "done"
    /\ Cardinality(kRows \ db.rows) = 2
    /\ \E r \in db.rows : Abs(r.Path) \in DOMAIN fs /\ IsBroken(fs[Abs(r.Path)])
    /\ \E r \in db.rows : Abs(r.Path) \in DOMAIN fs /\ ~IsBroken(fs[Abs(r.Path)])

\* ------------------------------------------- the commands, one after another

\* The file y can be opened and its read fails.
TreeReadFails ==
    (DirA \o <<"x">>) :> 1 @@ (DirA \o <<"y">>) :> -2 @@ (DirB \o <<"x">>) :> 1

\* The trees the commands meet: the tree, the tree with a file that cannot be
\* opened, the tree with a file whose read fails, the tree with a broken
\* directory entry.
OpsTrees == {Tree, TreeUnreadable, TreeReadFails, TreeBroken}

\* The root lists given to "sync info" in the sequence of commands.
OpsDirs == {<<DirA>>, <<DirA, DirB>>}

\* Sync runs of one command line over one of the trees, with an empty catalog
\* or a catalog that holds the row of a file removed since, followed by one
\* run of the duplicate resolver, of the merge or of the cleaning pass.
InitOps ==
    /\ fs \in OpsTrees
    /\ db \in {[NewDB EXCEPT !.open = FALSE],
               [Cataloged(NewDB, TreeOld, <<DirA \o <<"x">>, DirA \o <<"z">>>>)
                   EXCEPT !.open = FALSE]}
    /\ lastOp = NoOp
    /\ cfg \in [dirs : OpsDirs, threads : 1..MaxThreads, force : BOOLEAN,
                tag : {"t1"}, blacklist : {""}, batchSize : 1..MaxBatch]
    /\ run = 0
    /\ pc = "idle"
    /\ totalFiles = 0
    /\ toWalk = <<>>
    /\ fileCh = <<>>
    /\ fileChClosed = FALSE
    /\ resultCh = <<>>
    /\ resultChClosed = FALSE
    /\ wPc = [w \in 1..cfg.threads |-> "idle"]
    /\ wItem = [w \in 1..cfg.threads |-> <<>>]
    /\ cPc = "idle"
    /\ batch = <<>>
    /\ cIdx = 1
    /\ counter = 0
    /\ handed = <<>>
    /\ upserted = <<>>
    /\ failed = 0
    /\ writers = {}
    /\ rowsAtStart = {}
    /\ blacklistPatterns = <<>>
    /\ lookupErrs = 0
    /\ sent = <<>>
    /\ DupIdle
    /\ MergeIdle
    /\ CleanIdle

NextOps == NextSync \/ NextDup \/ NextMerge \/ NextClean

SpecOps == InitOps /\ [][NextOps]_vars

\* ------------------------------------- claims on the sequence of commands

\* A step removes a row: a key of the catalog is no longer there after it.
RowRemoved == \E r \in db.rows : \A r2 \in db.rows' : r2.Key # r.Key

\* C18: a row leaves the catalog only in a row-deleting step of the cleaning
\* pass or of the duplicate resolver; no step of a sync run or of a merge
\* removes a row, whether the row's file is on disk or not.
C18_OnlyCleanAndDupRemoveRows ==
    [][RowRemoved => (kPc = "delete" \/ dPc = "delete")]_vars

\* C18 witness: a sync run wrote rows and a merge copied a file and ended,
\* and the row of a file that is no longer on disk is still in the catalog.
C18_Witness ==
    /\ mPc = "done"
    /\ mCopied # {}
    /\ \E r \in db.rows : r.Tag = "t1"
    /\ \E r \in db.rows : r.Tag = "t0" /\ Abs(r.Path) \notin DOMAIN fs

\* The files under a list of roots that can be stat'ed, by absolute path.
GoodFilesUnder(f, roots) ==
    {q \in DOMAIN f : ~IsBroken(f[q]) /\ \E i \in 1..Len(roots) : IsPrefix(Abs(roots[i]), q)}

\* C19: an entry that cannot be stat'ed or read never ends a walk or the
\* command: the sync command is not ended by its counting walk, its driving
\* walk is started with the count of all good files, the duplicate scan takes
\* in every good file that can be read, and the merge is not ended by its scan.
C19_BadEntryNeverEndsWalk ==
    /\ pc # "aborted"
    /\ pc \in {"walk", "wait", "return", "returned", "exited"} =>
          \A q \in GoodFilesUnder(fs, cfg.dirs) :
              \E i \in 1..Len(WalkAll(fs, cfg.dirs, blacklistPatterns)) : Abs(WalkAll(fs, cfg.dirs, blacklistPatterns)[i]) = q
    /\ dPc \in {"select", "move", "delete", "done"} =>
          \A q \in GoodFilesUnder(gFs, dCfg.folderPaths) :
              CannotFingerprint(gFs[q]) \/ \E p \in DOMAIN fileInfoMap : Abs(p) = q
    /\ ~(mPc = "error" /\ mErr = "scan")

EntriesOnTheWay ==
    {wItem[w] : w \in {w \in DOMAIN wPc : wPc[w] = "send"}}
    \cup {resultCh[i] : i \in DOMAIN resultCh}
    \cup {batch[i] : i \in DOMAIN batch}

\* The sums of a content that was read to its end (a file's content or that
\* of a copy cut short).
SumsOfContents ==
    {<<MD5Of(c), Blake3Of(c)>> : c \in Contents \cup {Truncated(c) : c \in Contents}}

\* C28: the fingerprint of a file that cannot be opened, or whose read fails,
\* is an error with two empty digests; and no command stores a digest of such
\* a fingerprint: every row of the catalog and every entry on its way to it
\* holds the sums of a content read to its end, and no row is that of a file
\* of which no fingerprint can be had.
C28_FailedFingerprintGivesNoDigest ==
    /\ \A q \in DOMAIN fs :
          (IsBroken(fs[q]) \/ CannotFingerprint(fs[q])) =>
              /\ FileBlake3MD5(fs, q).err
              /\ FileBlake3MD5(fs, q).blake3 = ""
              /\ FileBlake3MD5(fs, q).md5 = ""
    /\ \A e \in db.rows \cup EntriesOnTheWay : <<e.MD5, e.Blake3>> \in SumsOfContents
    /\ \A r \in db.rows :
          Abs(r.Path) \in DOMAIN fs =>
              ~(IsBroken(fs[Abs(r.Path)]) \/ CannotFingerprint(fs[Abs(r.Path)]))

\* C28 witness: a sync run over the tree with the file whose read fails has
\* returned; that file was sent to a worker and the other file of its
\* directory has been upserted.
C28_Witness ==
    /\ pc = "returned"
    /\ \E i \in DOMAIN sent : FailsOnRead(fs[Abs(sent[i])])
    /\ \E i \in DOMAIN upserted : upserted[i] = DirA \o <<"x">>

\* ------------------------------------------- a sync run on a failing backend

\* The tree as it was before the file x of DirA was edited.
TreeBeforeEdit ==
    (DirA \o <<"x">>) :> 2 @@ (DirA \o <<"y">>) :> 2 @@ (DirB \o <<"x">>) :> 1

FaultTrees == {Tree, TreeUnreadable, TreeReadFails, TreeBroken}

\* The database file becomes unusable: from now on every statement, and
\* data.Connect, returns an error.
BackendFails ==
    /\ pc \in {"idle", "walk", "wait", "return"}
    /\ ~db.fail
    /\ db' = [db EXCEPT !.fail = TRUE]
    /\ UNCHANGED <<fs, lastOp, syncVars, dupVars, mergeVars, cleanVars>>

\* Sync runs of one command line over one of the trees, with no blacklist or
\* a blacklist that does not compile, with an empty catalog or the catalog of
\* the tree before an edit, on a backend that may fail at any moment.
InitFault ==
    /\ fs \in FaultTrees
    /\ db \in {[NewDB EXCEPT !.open = FALSE],
               [Cataloged(NewDB, TreeBeforeEdit, <<DirA \o <<"x">>>>)
                   EXCEPT !.open = FALSE]}
    /\ lastOp = NoOp
    /\ cfg \in [dirs : OpsDirs, threads : 1..MaxThreads, force : BOOLEAN,
                tag : {"t1"}, blacklist : {"", "bad"}, batchSize : 1..MaxBatch]
    /\ run = 0
    /\ pc = "idle"
    /\ totalFiles = 0
    /\ toWalk = <<>>
    /\ fileCh = <<>>
    /\ fileChClosed = FALSE
    /\ resultCh = <<>>
    /\ resultChClosed = FALSE
    /\ wPc = [w \in 1..cfg.threads |-> "idle"]
    /\ wItem = [w \in 1..cfg.threads |-> <<>>]
    /\ cPc = "idle"
    /\ batch = <<>>
    /\ cIdx = 1
    /\ counter = 0
    /\ handed = <<>>
    /\ upserted = <<>>
    /\ failed = 0
    /\ writers = {}
    /\ rowsAtStart = {}
    /\ blacklistPatterns = <<>>
    /\ lookupErrs = 0
    /\ sent = <<>>
    /\ DupIdle
    /\ MergeIdle
    /\ CleanIdle

NextFault == NextSync \/ BackendFails

SpecFault == InitFault /\ [][NextFault]_vars

\* ------------------------------- claims on the sync run and its failures

\* C21: a backend failure is fatal for the sync run: once an upsert of the
\* collector or a lookup of a worker has returned a backend error, no step of
\* that run attempts another catalog write and none reports the completion.
C21_BackendFailureIsFatal ==
    [][((failed > 0 \/ lookupErrs > 0) /\ run' = run) =>
          /\ upserted' = upserted
          /\ failed' = failed
          /\ ~(pc = "return" /\ pc' = "returned")]_vars

\* C22: an error of the rules' loading, of the counting or of the connection
\* ends the sync command before any side effect: no worker and no collector
\* has been started, no path sent, no catalog write made or attempted.
C22_LoadErrorsEndBeforeSideEffects ==
    (run > 0 /\ (\/ ReadBlacklist(cfg.blacklist).err
                 \/ countFiles(fs, cfg.dirs, ReadBlacklist(cfg.blacklist).patterns).err
                 \/ pc = "noconnect")) =>
        /\ pc \in {"badrules", "aborted", "noconnect"}
        /\ \A w \in DOMAIN wPc : wPc[w] = "idle"
        /\ cPc = "idle"
        /\ sent = <<>> /\ handed = <<>>
        /\ upserted = <<>> /\ failed = 0 /\ writers = {}
        /\ db.rows = rowsAtStart
        /\ ~db.open

\* C22 witness: the counting walk met a broken entry and the command has
\* ended, over a catalog that holds a row.
C22_Witness ==
    /\ pc = "aborted"
    /\ countFiles(fs, cfg.dirs, blacklistPatterns).err
    /\ cfg.threads = 2
    /\ db.rows # {}

\* C23: the progress counter never exceeds the number of entries upserted
\* with success in this run, nor the total counted.
C23_ProgressReflectsDurableState ==
    /\ counter <= Len(upserted)
    /\ counter <= totalFiles

\* C26: while the tree is unchanged, get(P) of a path P that this run has
\* fingerprinted and upserted returns a row whose two digests are those of a
\* fresh fingerprint of P.
C26_UpsertGetRoundTrip ==
    (db.open /\ ~db.fail) =>
        \A i \in DOMAIN upserted :
            LET got == GetFileInfoByPath(db, upserted[i])
                fresh == FileBlake3MD5(fs, upserted[i])
            IN  /\ got.err = ""
                /\ ~fresh.err
                /\ got.row.MD5 = fresh.md5
                /\ got.row.Blake3 = fresh.blake3

\* C26 witness: under force the entry of the edited file x has been upserted
\* over the row that held the digests of its former content.
C26_Witness ==
    /\ db.open /\ ~db.fail
    /\ \E r \in rowsAtStart : r.Path = DirA \o <<"x">> /\ r.MD5 # MD5Of(fs[r.Path])
    /\ \E i \in DOMAIN upserted : upserted[i] = DirA \o <<"x">>

\* C29: a worker that takes a path under force=false and finds a row with
\* the path's absolute form keeps nothing to send; under force=true, whatever
\* the catalog holds or answers, a worker keeps for the send an entry with a
\* fresh fingerprint of the file and the run's tag (when the file can be
\* stat'ed and fingerprinted).
C29_ForceDecidesLookup ==
    [][(fileCh # <<>> /\ fileCh' = Tail(fileCh)) =>
          LET p == Head(fileCh)
              fresh == FileBlake3MD5(fs, p)
          IN  /\ (~cfg.force /\ ~db.fail /\ \E r \in db.rows : r.Path = Abs(p)) =>
                    (wPc' = wPc /\ wItem' = wItem)
              /\ (cfg.force /\ ~fresh.err) =>
                    \E w \in Workers :
                        /\ wPc[w] = "recv" /\ wPc'[w] = "send"
                        /\ wItem'[w].Path = Abs(p)
                        /\ wItem'[w].Key = CalculateBlake3String(Abs(p))
                        /\ wItem'[w].Tag = cfg.tag
                        /\ wItem'[w].MD5 = fresh.md5
                        /\ wItem'[w].Blake3 = fresh.blake3]_vars

\* C29 witness: under force a worker is about to send the entry of a file
\* that has a row in the catalog.
C29_Witness ==
    /\ cfg.force
    /\ \E w \in Workers :
          /\ wPc[w] = "send"
          /\ \E r \in db.rows : r.Path = wItem[w].Path

\* The entries handed over and not yet passed to UpsertFileInfo, in order.
InFlight ==
    (IF cPc = "flush" THEN SubSeq(batch, cIdx, Len(batch)) ELSE batch) \o resultCh

\* C30: the collector passes the entries to the catalog in the order of their
\* arrival on resultCh; it saves its batch only when the batch has reached
\* batchSize or resultCh is closed and empty; the batch never holds more than
\* batchSize entries.
C30_CollectorWritesInArrivalOrder ==
    (run > 0 /\ pc \notin {"badrules", "aborted", "noconnect"}) =>
        /\ Len(handed) = Len(upserted) + failed + Len(InFlight)
        /\ \A i \in DOMAIN InFlight :
              InFlight[i].Path = handed[Len(upserted) + failed + i]
        /\ failed = 0 => upserted = SubSeq(handed, 1, Len(upserted))
        /\ cPc = "flush" =>
              (Len(batch) >= cfg.batchSize \/ (resultChClosed /\ resultCh = <<>>))
        /\ Len(batch) <= cfg.batchSize

\* C30 witness: with batchSize 2 the collector has saved a full batch and is
\* saving the final batch of one entry, and every write so far succeeded.
C30_Witness ==
    /\ cfg.batchSize = 2
    /\ Len(upserted) = 2
    /\ cPc = "flush" /\ Len(batch) = 1 /\ resultChClosed
    /\ failed = 0

\* ------------------------------------------ a sync run with exclusion rules

\* A tree with a file whose name has a dot and one whose name differs from it
\* in the place of the dot.
TreeRules ==
    (DirA \o <<"x">>) :> 1 @@ (DirA \o <<"x.t">>) :> 2 @@ (DirA \o <<"xat">>) :> 1
    @@ (DirB \o <<"x">>) :> 1

FilterDirs == {<<DirA>>, <<<<"a", "p">>>>, <<DirA, DirB>>}

\* The -B flag: absent, the name of a file that is not there, or one of the
\* blacklist files.
BlacklistArgs == {"", "missing"} \cup DOMAIN BlacklistFiles

\* One sync run with one worker over the tree with the dotted names or over
\* the tree with the broken entry, with any of the blacklists.
InitFilter ==
    /\ fs \in {TreeRules, TreeBroken}
    /\ db = [NewDB EXCEPT !.open = FALSE]
    /\ lastOp = NoOp
    /\ cfg \in [dirs : FilterDirs, threads : {1}, force : {FALSE},
                tag : {"t1"}, blacklist : BlacklistArgs, batchSize : {1}]
    /\ run = 0
    /\ pc = "idle"
    /\ totalFiles = 0
    /\ toWalk = <<>>
    /\ fileCh = <<>>
    /\ fileChClosed = FALSE
    /\ resultCh = <<>>
    /\ resultChClosed = FALSE
    /\ wPc = [w \in 1..cfg.threads |-> "idle"]
    /\ wItem = [w \in 1..cfg.threads |-> <<>>]
    /\ cPc = "idle"
    /\ batch = <<>>
    /\ cIdx = 1
    /\ counter = 0
    /\ handed = <<>>
    /\ upserted = <<>>
    /\ failed = 0
    /\ writers = {}
    /\ rowsAtStart = {}
    /\ blacklistPatterns = <<>>
    /\ lookupErrs = 0
    /\ sent = <<>>
    /\ DupIdle
    /\ MergeIdle
    /\ CleanIdle

SpecFilter == InitFilter /\ [][NextSync]_vars

\* ------------------------------------------ claims on the exclusion rules

\* A line with no character other than white space.
IsBlank(line) == \A i \in DOMAIN line : line[i] = " "

\* A line wrapped in /.../ and the text between the two slashes.
Wrapped(line) == Len(line) >= 2 /\ line[1] = "/" /\ line[Len(line)] = "/"
Inner(line) == SubSeq(line, 2, Len(line) - 1)

\* The lines of the run's blacklist file that are not blank.
RuleLines == SelectSeq(BlacklistFiles[cfg.blacklist], LAMBDA l : ~IsBlank(l))

RECURSIVE TrimAll(_)
TrimAll(lines) ==
    IF lines = <<>> THEN <<>> ELSE <<TrimSpace(Head(lines))>> \o TrimAll(Tail(lines))

\* The path strings the rules are tried on: the files of the trees as a walk
\* from an absolute and from a relative root reports them, and every line of
\* every blacklist file, as written and without its surrounding white space.
TestStrings ==
    {Str(q) : q \in DOMAIN TreeRules}
    \cup {Str(SubSeq(q, Len(Cwd) + 1, Len(q))) : q \in DOMAIN TreeRules}
    \cup UNION {UNION {{BlacklistFiles[n][i], TrimSpace(BlacklistFiles[n][i])} :
                          i \in DOMAIN BlacklistFiles[n]} :
                   n \in DOMAIN BlacklistFiles}

\* The rules loaded from the given lines are what the claim says of them.
RulesAre(lines) ==
    IF \E i \in DOMAIN lines : Wrapped(lines[i]) /\ Compile(Inner(lines[i])).err
    THEN pc = "badrules" /\ blacklistPatterns = <<>>
    ELSE /\ pc # "badrules"
         /\ Len(blacklistPatterns) = Len(lines)
         /\ \A i \in DOMAIN lines :
               IF Wrapped(lines[i])
               THEN /\ blacklistPatterns[i].src = Inner(lines[i])
                    /\ \A t \in TestStrings :
                          MatchString(blacklistPatterns[i], t)
                              <=> MatchString(Compile(Inner(lines[i])), t)
               ELSE \A t \in TestStrings :
                       MatchString(blacklistPatterns[i], t) <=> t = lines[i]

\* C24: of the lines of the blacklist file, one wrapped in /.../ has become
\* the regular expression between the slashes, tested against the path; any
\* other line that is not blank excludes exactly the path equal to the line;
\* a blank line has given no rule; a malformed expression has made the
\* loading fail, with no rule set.
C24_RulesFromLines ==
    (run > 0 /\ cfg.blacklist \in DOMAIN BlacklistFiles) => RulesAre(RuleLines)

\* C24 as amended: the same of every line without its leading and trailing
\* white space.
C24_RulesFromTrimmedLines ==
    (run > 0 /\ cfg.blacklist \in DOMAIN BlacklistFiles) => RulesAre(TrimAll(RuleLines))

\* C24 witness: the file with the literal path of x.t, an empty line and a
\* line of spaces has been loaded and gave one rule, which excludes x.t and
\* not xat.
C24_Witness ==
    /\ run > 0
    /\ cfg.blacklist = "lit"
    /\ Len(blacklistPatterns) = 1
    /\ shouldSkip(blacklistPatterns, DirA \o <<"x.t">>)
    /\ ~shouldSkip(blacklistPatterns, DirA \o <<"xat">>)
    /\ pc = "wait"

\* The files under a root that can be stat'ed, as a walk of the root reports
\* them.
FilesUnder(root) ==
    {root \o SubSeq(q, Len(Abs(root)) + 1, Len(q)) :
        q \in {q \in DOMAIN fs : IsPrefix(Abs(root), q) /\ ~IsBroken(fs[q])}}

\* The files under the run's roots that match none of the run's rules.
FilesToYield ==
    {path \in UNION {FilesUnder(cfg.dirs[i]) : i \in DOMAIN cfg.dirs} :
        ~shouldSkip(blacklistPatterns, path)}

\* The driving walk of the run is over, or the run has ended without one.
WalkOver == pc \in {"aborted", "wait", "return", "returned", "exited"}

\* The paths sent to the workers are the files to yield, and as many as were
\* counted; none of them is a directory or an excluded path.
YieldIsExact ==
    /\ {sent[i] : i \in DOMAIN sent} = FilesToYield
    /\ Len(sent) = totalFiles
    /\ \A i \in DOMAIN sent :
          Abs(sent[i]) \in DOMAIN fs /\ ~shouldSkip(blacklistPatterns, sent[i])

\* C25: once the walks of a sync run are over, the paths sent to the workers
\* are exactly the regular files under the roots that match no exclusion
\* rule, never a directory and never an excluded path, and their number is
\* the total counted.
C25_WalkerYieldsExactlyTheFiles ==
    (run > 0 /\ ~ReadBlacklist(cfg.blacklist).err /\ WalkOver) => YieldIsExact

\* ------------------------------------- claims on the order of the phases

\* Every file the duplicate scan takes in has been dealt with: it is in the
\* map, or no fingerprint can be had of it, or it lies in the deletion area
\* (where this run has moved it).
DupScanDrained ==
    /\ toScan = <<>>
    /\ \A i \in DOMAIN AllFiles(fs, dCfg.folderPaths) :
          LET p == AllFiles(fs, dCfg.folderPaths)[i]
          IN  \/ p \in DOMAIN fileInfoMap
              \/ CannotFingerprint(fs[Abs(p)])
              \/ Abs(p) \in DeletionArea(fs)

\* Both walks of the merge are over and every file they take in has its
\* digests in the map of its tree.
MergeScanDrained ==
    /\ mToScan = <<>>
    /\ \A i \in DOMAIN MergeWalk(mFs, mCfg.from) :
          MergeWalk(mFs, mCfg.from)[i] \in DOMAIN sourceFiles
    /\ \A i \in DOMAIN MergeWalk(mFs, mCfg.to) :
          MergeWalk(mFs, mCfg.to)[i] \in DOMAIN targetFiles

\* C31: in the duplicate resolver and in the merge every scanned file has been
\* fingerprinted before the first move or copy: a step that changes the
\* filesystem is a move made when the duplicate scan is drained or a copy
\* made when both scans of the merge are drained.
C31_FingerprintingDrainedBeforeActing ==
    [][(fs' # fs) =>
          \/ dPc = "move" /\ DupScanDrained
          \/ mPc = "copy" /\ MergeScanDrained]_vars

\* C31 witness: a duplicate scan fingerprinted files that had no row, and a
\* selected file of a group has been moved.
C31_Witness ==
    /\ moved # {}
    /\ \E p \in DOMAIN fileInfoMap : fileInfoMap[p].Tag = "" /\ fileInfoMap[p].ID = 0
    /\ Cardinality(DOMAIN fileInfoMap) >= 3

\* Every file selected so far has been moved and its row deletion has been
\* tried, and no selected file is waiting.
SelectedAllHandled ==
    /\ chosenLeft = <<>>
    /\ \A p \in chosenAll :
          /\ p \in moved
          /\ p \in rowDeleted \cup warned
          /\ Abs(p) \notin DOMAIN fs \/ Abs(p) \in DeletionArea(fs)

\* C32: the duplicate groups are handled one after another: when the selector
\* is asked about a group, every file selected in the groups before it has
\* been moved and its row deletion has been tried; a file is moved, or a row
\* deleted, only for a selected member of the group presented last; and the
\* members of a group are presented in ascending order of their paths.
C32_GroupsOneAfterAnother ==
    [][/\ (presented' # presented) => SelectedAllHandled
       /\ \A p \in (moved' \ moved) \cup (rowDeleted' \ rowDeleted) : p \in gChosen
       /\ \A i \in DOMAIN sortedGroup' : \A j \in DOMAIN sortedGroup' :
             i < j => PathLess(sortedGroup'[i], sortedGroup'[j])
       /\ {sortedGroup'[i] : i \in DOMAIN sortedGroup'} = gGroup']_vars

\* C32 witness: a file of one group was moved and its row deleted, then a
\* second group was presented and a file of that group was moved and its row
\* deleted.
C32_Witness ==
    /\ Cardinality(presented) = 2
    /\ Cardinality(rowDeleted) = 2
    /\ \E g \in presented : g # gGroup /\ moved \cap g # {} /\ rowDeleted \cap g # {}
    /\ rowDeleted \cap gChosen # {}
    /\ Len(sortedGroup) = 2

\* ------------------------------------------ claims on the duplicate scan

\* The rows of the catalog for the file a path names.
RowsOfFile(p) == {r \in db.rows : Abs(r.Path) = Abs(p)}

\* A turn of the scan loop takes the next path.
ScanTurn == dPc = "scan" /\ toScan # <<>> /\ toScan' = Tail(toScan)

\* C33: in a turn of the duplicate scan, a file that has a catalog row is not
\* read: the catalog is left as it is and the file enters the map with the
\* digests of its row; a file with no row is fingerprinted, and a row with
\* its fresh digests is in the catalog when the turn is over; a file whose
\* fingerprint fails enters no map (and so no group) and the scan goes on;
\* and the files are grouped only from the map.
C33_ScanUsesStoredDigests ==
    [][/\ ScanTurn =>
             LET p == Head(toScan)
             IN /\ dPc' = "scan"
                /\ RowsOfFile(p) # {} =>
                      /\ db' = db
                      /\ p \in DOMAIN fileInfoMap'
                      /\ \E r \in RowsOfFile(p) :
                            /\ fileInfoMap'[p].MD5 = r.MD5
                            /\ fileInfoMap'[p].Blake3 = r.Blake3
                /\ (RowsOfFile(p) = {} /\ ~FileBlake3MD5(fs, p).err) =>
                      /\ p \in DOMAIN fileInfoMap'
                      /\ fileInfoMap'[p].MD5 = FileBlake3MD5(fs, p).md5
                      /\ fileInfoMap'[p].Blake3 = FileBlake3MD5(fs, p).blake3
                      /\ \E r \in db'.rows :
                            /\ r.Path = p
                            /\ r.MD5 = fileInfoMap'[p].MD5
                            /\ r.Blake3 = fileInfoMap'[p].Blake3
                /\ (RowsOfFile(p) = {} /\ FileBlake3MD5(fs, p).err) =>
                      /\ p \notin DOMAIN fileInfoMap'
                      /\ db' = db
       /\ \A g \in groupsLeft' : g \subseteq DOMAIN fileInfoMap']_vars

\* ------------------------------------- a sync run under a fair scheduler

\* A sync command over the tree with any worker count from 0, which the
\* "--threads" flag accepts as it accepts any integer.
InitLive ==
    /\ fs = Tree
    /\ db = [NewDB EXCEPT !.open = FALSE]
    /\ lastOp = NoOp
    /\ cfg \in [dirs : SyncDirs, threads : 0..MaxThreads, force : BOOLEAN,
                tag : {"t1"}, blacklist : {""}, batchSize : 1..MaxBatch]
    /\ run = 0
    /\ pc = "idle"
    /\ totalFiles = 0
    /\ toWalk = <<>>
    /\ fileCh = <<>>
    /\ fileChClosed = FALSE
    /\ resultCh = <<>>
    /\ resultChClosed = FALSE
    /\ wPc = [w \in 1..cfg.threads |-> "idle"]
    /\ wItem = [w \in 1..cfg.threads |-> <<>>]
    /\ cPc = "idle"
    /\ batch = <<>>
    /\ cIdx = 1
    /\ counter = 0
    /\ handed = <<>>
    /\ upserted = <<>>
    /\ failed = 0
    /\ writers = {}
    /\ rowsAtStart = {}
    /\ blacklistPatterns = <<>>
    /\ lookupErrs = 0
    /\ sent = <<>>
    /\ DupIdle
    /\ MergeIdle
    /\ CleanIdle

\* A step of the goroutine of processDirectories itself.
MainStep ==
    WalkSend \/ CloseFileCh \/ WaitAndCloseResultCh \/ ReturnAndCloseDB \/ ProcessExit

\* A step of the worker goroutine w.
WorkerStep(w) == w \in Workers /\ (WorkerRecv(w) \/ WorkerSend(w) \/ WorkerDone(w))

\* A step of the collector goroutine.
CollectorStep == CollectorRecv \/ CollectorDrained \/ CollectorUpsert \/ CollectorCount

\* The scheduler of the runtime: a goroutine that can run is run in the end.
Fairness ==
    /\ WF_vars(MainStep)
    /\ \A w \in 1..MaxThreads : WF_vars(WorkerStep(w))
    /\ WF_vars(CollectorStep)

SpecLive == InitLive /\ [][NextSync]_vars /\ Fairness

\* ------------------------------------------- claims on the end of a sync run

\* C34: with a worker count of at least 1 (and a batch size of at least 1) a
\* sync run that has started its walk always comes to its end: the walker,
\* the workers and the collector never block each other for ever on the two
\* bounded queues.
C34_SyncRunTerminates ==
    (cfg.threads >= 1 /\ cfg.batchSize >= 1 /\ pc \in {"walk", "wait", "return", "returned"})
        ~> (pc = "exited")

\* C34 witness: the walker has a path to send and the queue of paths is full,
\* so it waits for a worker.
C34_Witness ==
    /\ pc = "walk"
    /\ cfg.threads >= 1
    /\ toWalk # <<>>
    /\ Len(fileCh) = ChanCap

\* C35: with a worker count of 0 and at least one file to yield, a sync run
\* never completes: the walker stays at its first send, nothing is sent to a
\* worker, and no entry is written to the catalog.
C35_NoWorkerRunNeverCompletes ==
    (run > 0 /\ cfg.threads = 0 /\ WalkAll(fs, cfg.dirs, blacklistPatterns) # <<>>) =>
        /\ pc = "walk"
        /\ toWalk = WalkAll(fs, cfg.dirs, blacklistPatterns)
        /\ sent = <<>>
        /\ fileCh = <<>>
        /\ handed = <<>>
        /\ upserted = <<>>
        /\ failed = 0
        /\ db.rows = rowsAtStart

\* C35 witness: a run with no worker has started its walk over a tree that
\* has files to yield.
C35_Witness ==
    /\ run > 0
    /\ cfg.threads = 0
    /\ pc = "walk"
    /\ Len(toWalk) >= 2
    /\ ~ENABLED MainStep

\* ------------------------------------------------ claims on keys and paths

DestOf(p) == Abs(DestPath(fileInfoMap[p], dCfg))

\* C37: the duplicate resolver never overwrites a file in the deletion area:
\* two different files selected for removal have different destinations, and
\* a move puts its file where no file was.
C37_NoOverwriteInDeletionArea ==
    [][/\ \A p \in chosenAll' : \A q \in chosenAll' :
             Abs(p) # Abs(q) => DestOf(p)' # DestOf(q)'
       /\ \A p \in moved' \ moved : DestOf(p) \notin DOMAIN fs]_vars

\* C38: a duplicate group never holds the same file twice, also when the
\* roots overlap or name one directory in two forms: two members of a group
\* are two files; and a member that was not selected is still on disk when
\* selected members of its group have been moved.
C38_GroupMembersAreDistinctFiles ==
    /\ \A g \in presented \cup groupsLeft :
          \A p \in g : \A q \in g : Abs(p) = Abs(q) => p = q
    /\ \A q \in gGroup \ gChosen : Abs(q) \in DOMAIN fs

\* ----------------------------------------------- claims on what is left alone

\* C39: a merge only adds files: every file that was under the source tree
\* or under the target tree when the merge started (the files of the backup
\* directory of the day among them) is still there with its content.
C39_MergeOnlyAddsFiles ==
    mPc # "idle" =>
        \A q \in UnderRoot(mFs, mCfg.from) \cup UnderRoot(mFs, mCfg.to) :
            q \in DOMAIN fs /\ fs[q] = mFs[q]

\* C40: with force=false a sync run leaves every row the catalog held when
\* the run started exactly as it was, also the row of a file whose content
\* on disk is no longer the content the row was written from.
C40_UnforcedRunKeepsRows ==
    (run > 0 /\ ~cfg.force) => rowsAtStart \subseteq db.rows

\* C40 witness: an unforced run has returned and has written the row of
\* another file, and the catalog still holds the row of a file whose content
\* has changed since, with the digests of the old content.
C40_Witness ==
    /\ pc = "returned"
    /\ ~cfg.force
    /\ \E r \in db.rows : r.Tag = "t1"
    /\ \E r \in rowsAtStart \cap db.rows :
          /\ r.Path \in DOMAIN fs
          /\ r.Path \in {sent[i] : i \in DOMAIN sent}
          /\ r.MD5 # MD5Of(fs[r.Path])

====
